---- MODULE Spec2Model ----
(***************************************************************************)
(* Verification model of the script-to-movie backend                       *)
(* (src/script_to_movie/backend/app).                                      *)
(*                                                                         *)
(* Two state machines share this module.                                   *)
(*  - The pipeline (Spec): one project, its persisted records and the      *)
(*    entry points that change them: the background workflow               *)
(*    (_run_pipeline), the orchestrator (run_full_pipeline), script        *)
(*    analysis, storyboard extraction, trailer generation with its         *)
(*    concurrent clip batch, and the clip-generation agent.                *)
(*  - The generation client (ClientSpec): one call of generate_video_clip  *)
(*    or of KlingClient.poll_task against a vendor whose responses are     *)
(*    chosen nondeterministically.                                         *)
(***************************************************************************)
EXTENDS Integers, Sequences, FiniteSets, TLC

\* ------------------------------------------------------------------ bounds
MaxScenes == 2        \* Scene rows the project may accumulate
MaxRuns == 2          \* entry-point invocations in one behaviour
MaxDuration == 11     \* largest clip duration a caller requests

\* --------------------------------------------------------------- constants
ClipDurations == {5, 10}
POLL_INTERVAL_SECONDS == 10
MAX_POLL_ATTEMPTS == 360
poll_interval == 10
max_wait == 600

VARIABLES
    status,        \* Project.status
    progress,      \* Project.progress
    errorMessage,  \* Project.errorMessage ("none" for NULL)
    scenes,        \* number of Scene rows of the project (ids 1..scenes)
    prompts,       \* set of scene ids that have a VideoPrompt row
    videos,        \* GeneratedVideo rows in insertion order
    movies,        \* FinalMovie rows in insertion order
    op,            \* entry point currently (or last) executing
    pc,            \* position inside that entry point
    idx,           \* loop index of the running loop
    analysis,      \* scenes returned by the narrative service, not yet stored
    entered,       \* phases entered by the current run, in order
    outcomes,      \* outcome of each entered phase: "running", "ok", "failed"
    phaseRaised,   \* message of the exception a phase raised in this run
    escaped,       \* message of the exception that reached the caller
    result,        \* status of the dict the entry point returned
    jobs,          \* clip jobs of the concurrent batch: scene id -> job record
    batchBase,     \* Len(videos) when the current clip batch started
    movieBase,     \* Len(movies) when the current clip batch started
    genFailed,     \* agent batch: jobs whose generation raised
    genSkipped,    \* agent batch: scenes skipped for lack of a prompt
    genCreated,    \* agent batch: clips created
    runs,          \* entry-point invocations so far
    deferredAnnotations  \* interpreter evaluates annotations lazily (3.14+)

VARIABLES
    cfn,        \* function under call: "generate_video_clip", "poll_task"
                \* or "submit_clip_from_bytes"
    cKeys,      \* vendor credentials configured: [api, secret] booleans
    cDuration,  \* requested clip duration (seconds)
    cImage,     \* a reference image URL was passed
    cVariant,   \* submission variant chosen: "none", "i2v", "t2v"
    cBytes,     \* magic bytes of the reference image (NoBytes: no image)
    cFetch,     \* _fetch_image_as_base64: "none", "ok", "empty", "failed"
    cRequest,   \* request built: [poll, mime, duration]
    cTokenAt,   \* seconds slept when the token in use was generated
    cpc,        \* "start", "submit", "poll", "done"
    submits,    \* submit requests sent
    attempt,    \* poll requests sent
    elapsed,    \* poll_task: seconds slept so far
    allQueued,  \* every poll so far reported a non-terminal status
    lastResp,   \* last vendor response: [stage, kind]
    cOutcome,   \* "none", "mock", "completed", "timeout", "vendor_failed",
                \* "error" (any other exception)
    cErrMsg,    \* message carried by the raised error
    cClipDur    \* duration of the returned clip record

VARIABLES
    p1fn,        \* Phase 1 function under call: "run_phase1", "analyze_script"
    p1pc,        \* position inside it
    llm,         \* analysis returned by the narrative service, being stored
    sceneRows,   \* Scene rows: [num, order, setting, chars], insertion order
    characters,  \* names of the Character rows
    settingRows, \* names of the Setting rows
    selected     \* selectedSceneNumbers returned by the narrative service

p1vars == <<p1fn, p1pc, llm, sceneRows, characters, settingRows, selected>>

VARIABLES
    afn,         \* assembly under call: "execute" (agent), "generate_trailer"
    apc,         \* position inside it
    aOrder,      \* Scene.order of each scene (scene ids 1..scenes)
    aSeq,        \* the scenes as the order_by(Scene.order) query listed them
    aidx,        \* loop position in aSeq
    attempts,    \* download requests sent per scene
    files,       \* download path -> scene whose clip is stored there (0: none)
    scene_clips, \* concat list entries [scene, path]
    dialogue,    \* Scene.dialogue of each scene: "blank" or "text"
    narration,   \* per scene: "pending" or how step 4 of the loop ended
    movieClips,  \* scenes whose clips make up the final file, in file order
    aResult      \* "none", "success", "error", "raised"

avars == <<afn, apc, aOrder, aSeq, aidx, attempts, files, scene_clips,
           dialogue, narration, movieClips, aResult>>

VARIABLES
    bpc,           \* Phase 2 position: "idle", "loop", "finish", "done"
    bidx,          \* loop position in the scene list
    boards,        \* StoryboardImage rows [sceneId, status]
    frames_failed, \* scenes of this run without a frame
    executed,      \* how execute ended: returned dict or raised exception
    bResult,       \* dict run_generate_storyboards returned [status, message]
    bEscaped,      \* text of an exception leaving it, "none" otherwise
    bRuns,         \* Phase 2 runs started
    trailerKey     \* project.trailerKey: "absent", "none" or "set"

bvars == <<bpc, bidx, boards, frames_failed, executed, bResult, bEscaped,
           bRuns, trailerKey>>

VARIABLES
    rpc,        \* repeated analysis: position inside analyze_script
    rOut,       \* sizes of the analysis in hand [n, c, s]
    rRows,      \* Scene / Character / Setting rows of the project, counted
    returned,   \* sizes returned by the runs that succeeded, in order
    rFailures   \* runs that raised

rvars == <<rpc, rOut, rRows, returned, rFailures>>

VARIABLES
    tasks,      \* background _run_pipeline tasks of the project: their position
    sjobs,      \* jobs of one gathered batch, at await granularity
    pending,    \* objects added to the shared session, not yet committed
    committed   \* clip rows of the batch the database holds

tvars == <<tasks, sjobs, pending, committed>>

\* State outside the pipeline and the generation client.
xvars == <<p1vars, avars, bvars, rvars, tvars>>

cvars == <<cfn, cKeys, cDuration, cImage, cVariant, cBytes, cFetch, cRequest,
           cTokenAt, cpc, submits, attempt, elapsed, allQueued, lastResp,
           cOutcome, cErrMsg, cClipDur>>

pvars == <<status, progress, errorMessage, scenes, prompts, videos, movies,
           op, pc, idx, analysis, entered, outcomes, phaseRaised, escaped,
           result, jobs, batchBase, movieBase, genFailed, genSkipped,
           genCreated, runs, deferredAnnotations>>

\* ------------------------------------------------------------ project model
\* Values of the project_status column.
ProjectStatuses ==
    {"draft", "parsing", "parsed", "generating_storyboard",
     "generating_videos", "assembling", "completed", "failed"}

\* The documented status chain of the orchestrator.
PhaseGraph ==
    { <<"draft", "parsing">>, <<"parsing", "parsed">>,
      <<"parsed", "generating_storyboard">>,
      <<"generating_storyboard", "generating_videos">>,
      <<"generating_videos", "assembling">>,
      <<"assembling", "completed">> }

Idle == pc \in {"idle", "done"}

NoJobRunning == \A s \in DOMAIN jobs : jobs[s].st # "running"

RECURSIVE SumDur(_)
SumDur(seq) == IF seq = <<>> THEN 0 ELSE Head(seq) + SumDur(Tail(seq))

\* Mark the last entered phase with outcome o.
MarkPhase(o) ==
    IF outcomes = <<>> THEN outcomes
    ELSE [outcomes EXCEPT ![Len(outcomes)] = o]


\* Variable groups.
proj == <<status, progress, errorMessage>>
recs == <<scenes, prompts, videos, movies>>
book == <<entered, outcomes, phaseRaised, escaped, result>>
batch == <<jobs, batchBase, movieBase>>
gen == <<genFailed, genSkipped, genCreated>>

PipelineInit ==
    /\ status = "draft"
    /\ progress = 0
    /\ errorMessage = "none"
    /\ scenes = 0
    /\ prompts = {}
    /\ videos = <<>>
    /\ movies = <<>>
    /\ op = "idle"
    /\ pc = "idle"
    /\ idx = 0
    /\ analysis = 0
    /\ entered = <<>>
    /\ outcomes = <<>>
    /\ phaseRaised = "none"
    /\ escaped = "none"
    /\ result = "none"
    /\ jobs = <<>>
    /\ batchBase = 0
    /\ movieBase = 0
    /\ genFailed = 0
    /\ genSkipped = 0
    /\ genCreated = 0
    /\ runs = 0
    /\ deferredAnnotations \in BOOLEAN

\* A new entry-point invocation: fresh per-run bookkeeping.
Begin(o, p) ==
    /\ Idle
    /\ NoJobRunning
    /\ runs < MaxRuns
    /\ op' = o
    /\ pc' = p
    /\ runs' = runs + 1
    /\ entered' = <<>>
    /\ outcomes' = <<>>
    /\ phaseRaised' = "none"
    /\ escaped' = "none"
    /\ result' = "none"
    /\ UNCHANGED <<proj, recs, batch, gen, idx, analysis,
                   deferredAnnotations, cvars, xvars>>

\* An exception with message e leaves a phase function whose own handler
\* left the project at (st, pr, em); ent/out are the phases entered and
\* their outcomes.  _run_pipeline catches it, writes failed + message and
\* returns normally; every other caller lets it go.
Raises(e, st, pr, em, ent, out) ==
    /\ phaseRaised' = e
    /\ entered' = ent
    /\ outcomes' = out
    /\ result' = "none"
    /\ pc' = "done"
    /\ progress' = pr
    /\ IF op = "workflow"
       THEN /\ status' = "failed"
            /\ errorMessage' = e
            /\ escaped' = "none"
       ELSE /\ status' = st
            /\ errorMessage' = em
            /\ escaped' = e
    /\ UNCHANGED <<recs, batch, gen, op, idx, analysis, runs,
                   deferredAnnotations, cvars, xvars>>

PhaseRaises(e, st, pr, em) ==
    Raises(e, st, pr, em, entered, MarkPhase("failed"))

\* The entry point returns a dict with status r.
Returns(r) ==
    /\ result' = r
    /\ pc' = "done"

\* ------------------------------------------------- workflow/service.py
\* start_workflow + the head of _run_pipeline: decide from the persisted
\* status whether Phase 1 runs.
StartWorkflow ==
    /\ Idle
    /\ Begin("workflow",
             IF status \in {"draft", "parsing", "failed"} THEN "an_enter"
             ELSE "tr_enter")

\* ------------------------------- phases/script_to_trailer/service.py
\* POST /analyze calls analyze_script directly.
AnalyzeCall ==
    /\ Idle
    /\ Begin("analyze", "an_enter")

AnalyzeEnter ==
    /\ pc = "an_enter"
    /\ status' = "parsing"
    /\ progress' = 10
    /\ entered' = Append(entered, 1)
    /\ outcomes' = Append(outcomes, "running")
    /\ pc' = "an_llm"
    /\ UNCHANGED <<errorMessage, recs, batch, gen, op, idx, analysis,
                   phaseRaised, escaped, result, runs,
                   deferredAnnotations, cvars, xvars>>

\* The except block of analyze_script.
AnalyzeFails(e) == PhaseRaises(e, "failed", 0, e)

\* The narrative service returns n scenes, or the call raises.
AnalyzeLLM ==
    /\ pc = "an_llm"
    /\ \/ AnalyzeFails("llm_error")
       \/ \E n \in 0..MaxScenes :
            /\ scenes + n <= MaxScenes
            /\ analysis' = n
            /\ progress' = 40
            /\ pc' = "an_chars"
            /\ UNCHANGED <<status, errorMessage, recs, batch, gen, op, idx,
                           book, runs, deferredAnnotations, cvars, xvars>>

AnalyzeStoreCharacters ==
    /\ pc = "an_chars"
    /\ progress' = 60
    /\ pc' = "an_settings"
    /\ UNCHANGED <<status, errorMessage, recs, batch, gen, op, idx, analysis,
                   book, runs, deferredAnnotations, cvars, xvars>>

AnalyzeStoreSettings ==
    /\ pc = "an_settings"
    /\ progress' = 80
    /\ pc' = "an_scenes"
    /\ UNCHANGED <<status, errorMessage, recs, batch, gen, op, idx, analysis,
                   book, runs, deferredAnnotations, cvars, xvars>>

\* Store the scenes, mark the project parsed and return; in the workflow
\* the run continues with generate_trailer.
AnalyzeStoreScenes ==
    /\ pc = "an_scenes"
    /\ scenes' = scenes + analysis
    /\ analysis' = 0
    /\ status' = "parsed"
    /\ progress' = 100
    /\ errorMessage' = "none"
    /\ outcomes' = MarkPhase("ok")
    /\ IF op = "workflow"
       THEN pc' = "tr_enter" /\ result' = result
       ELSE Returns("success")
    /\ UNCHANGED <<prompts, videos, movies, batch, gen, op, idx, entered,
                   phaseRaised, escaped, runs, deferredAnnotations, cvars,
                   xvars>>

\* ------------------------------ phases/storyboard_to_movie/service.py
\* POST /generate-trailer calls generate_trailer directly.
TrailerCall ==
    /\ Idle
    /\ Begin("trailer", "tr_enter")

\* Fetch the project, check its status, mark it generating_videos.
TrailerEnter ==
    /\ pc = "tr_enter"
    /\ IF status \notin {"parsed", "completed", "failed"}
       THEN Raises("not_parsed", status, progress, errorMessage,
                   Append(entered, 3), Append(outcomes, "failed"))
       ELSE /\ status' = "generating_videos"
            /\ progress' = 5
            /\ entered' = Append(entered, 3)
            /\ outcomes' = Append(outcomes, "running")
            /\ pc' = "tr_fetch"
            /\ UNCHANGED <<errorMessage, recs, batch, gen, op, idx, analysis,
                           phaseRaised, escaped, result, runs,
                           deferredAnnotations, cvars, xvars>>

\* The except block of generate_trailer.
TrailerFails(e) == PhaseRaises(e, "failed", 0, e)

TrailerFetch ==
    /\ pc = "tr_fetch"
    /\ IF scenes = 0
       THEN TrailerFails("no_scenes")
       ELSE /\ idx' = 0
            /\ pc' = "tr_prompt"
            /\ UNCHANGED <<proj, recs, batch, gen, op, analysis, book, runs,
                           deferredAnnotations, cvars, xvars>>

\* int(((i + 1) / total_scenes) * 40) + 5
PromptProgress(i, total) == ((40 * (i + 1)) \div total) + 5

\* One iteration of the sequential prompt loop (0-based index idx).
TrailerPrompt ==
    /\ pc = "tr_prompt"
    /\ \/ TrailerFails("llm_error")
       \/ /\ prompts' = prompts \cup {idx + 1}
          /\ progress' = PromptProgress(idx, scenes)
          /\ idx' = idx + 1
          /\ pc' = IF idx + 1 = scenes THEN "tr_batch_start" ELSE "tr_prompt"
          /\ UNCHANGED <<status, errorMessage, scenes, videos, movies, batch,
                         gen, op, analysis, book, runs,
                   deferredAnnotations, cvars, xvars>>

\* GeneratedVideo / FinalMovie rows.
VideoRow(s, st, d) == [sceneId |-> s, status |-> st, duration |-> d]
MovieRow(d) == [duration |-> d, status |-> "completed"]

\* progress = 45, then the nested coroutine _generate_and_store is defined
\* and asyncio.gather starts one job per scene.  The module never imports
\* VideoClip, the return annotation of _generate_and_store: an interpreter
\* that evaluates annotations at definition time raises NameError here.
TrailerBatchStart ==
    /\ pc = "tr_batch_start"
    /\ IF ~deferredAnnotations
       THEN TrailerFails("name_error")
       ELSE /\ progress' = 45
            /\ jobs' = [s \in 1..scenes |-> [st |-> "running", dur |-> 0]]
            /\ batchBase' = Len(videos)
            /\ movieBase' = Len(movies)
            /\ pc' = "tr_batch"
            /\ UNCHANGED <<status, errorMessage, recs, gen, op, idx, analysis,
                           book, runs, deferredAnnotations, cvars, xvars>>

\* _generate_and_store for scene s: generate_video_clip returned a clip of
\* duration d; the row is added and committed.  gather cancels nothing, so
\* a job still running after the batch was abandoned does the same.
JobSucceed(s) ==
    /\ s \in DOMAIN jobs
    /\ jobs[s].st = "running"
    /\ \E d \in ClipDurations :
         /\ videos' = Append(videos, VideoRow(s, "completed", d))
         /\ jobs' = [jobs EXCEPT ![s] = [st |-> "stored", dur |-> d]]
    /\ UNCHANGED <<proj, scenes, prompts, movies, batchBase, movieBase, gen,
                   op, pc, idx, analysis, book, runs,
                   deferredAnnotations, cvars, xvars>>

\* generate_video_clip raised in the job of scene s: nothing is persisted.
JobRaise(s) ==
    /\ s \in DOMAIN jobs
    /\ jobs[s].st = "running"
    /\ jobs' = [jobs EXCEPT ![s] = [st |-> "raised", dur |-> 0]]
    /\ UNCHANGED <<proj, recs, batchBase, movieBase, gen, op, pc, idx,
                   analysis, book, runs, deferredAnnotations, cvars, xvars>>

\* gather re-raises the first job exception into generate_trailer.
TrailerBatchAbort ==
    /\ pc = "tr_batch"
    /\ \E s \in DOMAIN jobs : jobs[s].st = "raised"
    /\ TrailerFails("job_failed")

\* gather returned every clip.
TrailerBatchDone ==
    /\ pc = "tr_batch"
    /\ \A s \in DOMAIN jobs : jobs[s].st = "stored"
    /\ progress' = 90
    /\ pc' = "tr_assemble"
    /\ UNCHANGED <<status, errorMessage, recs, batch, gen, op, idx, analysis,
                   book, runs, deferredAnnotations, cvars, xvars>>

\* video_generator.assemble_trailer: total duration of the clip list.
assemble_trailer(clips) ==
    IF Len(clips) > 1
    THEN SumDur(clips) - ((Len(clips) - 1) \div 2)
    ELSE SumDur(clips)

BatchClips == [s \in 1..Len(jobs) |-> jobs[s].dur]

TrailerAssemble ==
    /\ pc = "tr_assemble"
    /\ movies' = Append(movies, MovieRow(assemble_trailer(BatchClips)))
    /\ status' = "completed"
    /\ progress' = 100
    /\ errorMessage' = "none"
    /\ outcomes' = MarkPhase("ok")
    /\ Returns("success")
    /\ UNCHANGED <<scenes, prompts, videos, batch, gen, op, idx, analysis,
                   entered, phaseRaised, escaped, runs,
                   deferredAnnotations, cvars, xvars>>

\* ------------------------------ phases/trailer_to_storyboard/service.py
\* POST /generate calls run_generate_storyboards directly.
StoryboardsCall ==
    /\ Idle
    /\ Begin("storyboards", "sb_enter")

StoryboardsEnter ==
    /\ pc = "sb_enter"
    /\ status' = "generating_storyboard"
    /\ progress' = 40
    /\ entered' = Append(entered, 2)
    /\ outcomes' = Append(outcomes, "running")
    /\ pc' = "sb_agent"
    /\ UNCHANGED <<errorMessage, recs, batch, gen, op, idx, analysis,
                   phaseRaised, escaped, result, runs,
                   deferredAnnotations, cvars, xvars>>

\* StoryboardPromptAgent().safe_execute returned a dict with status r;
\* run_full_pipeline then stops on "error" and goes on otherwise.
StoryboardsAgent ==
    /\ pc = "sb_agent"
    /\ \E r \in {"success", "partial", "error"} :
         /\ IF r = "error"
            THEN /\ status' = "failed"
                 /\ errorMessage' = IF op = "full" THEN "phase2_failed"
                                    ELSE "storyboard_failed"
                 /\ progress' = progress
                 /\ outcomes' = MarkPhase("failed")
                 /\ Returns("error")
            ELSE /\ progress' = 66
                 /\ UNCHANGED <<status, errorMessage>>
                 /\ outcomes' = MarkPhase("ok")
                 /\ IF op = "full"
                    THEN pc' = "full_p3" /\ result' = result
                    ELSE Returns(r)
    /\ UNCHANGED <<recs, batch, gen, op, idx, analysis, entered, phaseRaised,
                   escaped, runs, deferredAnnotations, cvars, xvars>>

\* -------------------------------------------- workflow/orchestrator.py
FullStart ==
    /\ Idle
    /\ Begin("full", "full_p1")

\* run_phase of Phase 1 as its module documents it: parsing, then parsed
\* at progress 33 with the scenes stored, or an error result.
FullPhase1Enter ==
    /\ pc = "full_p1"
    /\ status' = "parsing"
    /\ entered' = Append(entered, 1)
    /\ outcomes' = Append(outcomes, "running")
    /\ pc' = "full_p1_run"
    /\ UNCHANGED <<progress, errorMessage, recs, batch, gen, op, idx,
                   analysis, phaseRaised, escaped, result, runs,
                   deferredAnnotations, cvars, xvars>>

FullPhase1Finish ==
    /\ pc = "full_p1_run"
    /\ \/ \E n \in 1..MaxScenes :
            /\ scenes + n <= MaxScenes
            /\ scenes' = scenes + n
            /\ status' = "parsed"
            /\ progress' = 33
            /\ outcomes' = MarkPhase("ok")
            /\ pc' = "sb_enter"
            /\ UNCHANGED <<errorMessage, result>>
       \/ /\ status' = "failed"
          /\ errorMessage' = "phase1_failed"
          /\ outcomes' = MarkPhase("failed")
          /\ Returns("error")
          /\ UNCHANGED <<progress, scenes>>
    /\ UNCHANGED <<prompts, videos, movies, batch, gen, op, idx, analysis,
                   entered, phaseRaised, escaped, runs,
                   deferredAnnotations, cvars, xvars>>

\* run_phase of Phase 3 raises NotImplementedError; run_full_pipeline has
\* no handler.
FullPhase3 ==
    /\ pc = "full_p3"
    /\ Raises("not_implemented", status, progress, errorMessage,
              Append(entered, 3), Append(outcomes, "failed"))

\* ------------- phases/storyboard_to_movie/agents/video_generation.py
GenerateCall ==
    /\ Idle
    /\ Begin("generate", "gen_start")

GenerateStart ==
    /\ pc = "gen_start"
    /\ IF scenes = 0
       THEN /\ Returns("error")
            /\ UNCHANGED <<idx, gen, batchBase>>
       ELSE /\ idx' = 1
            /\ genFailed' = 0
            /\ genSkipped' = 0
            /\ genCreated' = 0
            /\ batchBase' = Len(videos)
            /\ pc' = "gen_loop"
            /\ result' = result
    /\ UNCHANGED <<proj, recs, jobs, movieBase, op, analysis, entered,
                   outcomes, phaseRaised, escaped, runs,
                   deferredAnnotations, cvars, xvars>>

\* "success" if not errors else "partial"
GenerateReport(errors) == IF errors = 0 THEN "success" ELSE "partial"

\* One iteration of the per-scene loop; the last one returns the report.
GenerateScene ==
    /\ pc = "gen_loop"
    /\ \/ /\ idx \notin prompts
          /\ genSkipped' = genSkipped + 1
          /\ UNCHANGED <<videos, genFailed, genCreated>>
       \/ /\ idx \in prompts
          /\ \E d \in ClipDurations :
               videos' = Append(videos, VideoRow(idx, "completed", d))
          /\ genCreated' = genCreated + 1
          /\ UNCHANGED <<genFailed, genSkipped>>
       \/ /\ idx \in prompts
          /\ videos' = Append(videos, VideoRow(idx, "failed", 0))
          /\ genFailed' = genFailed + 1
          /\ UNCHANGED <<genCreated, genSkipped>>
    /\ IF idx = scenes
       THEN Returns(GenerateReport(genFailed' + genSkipped')) /\ idx' = idx
       ELSE /\ idx' = idx + 1
            /\ UNCHANGED <<pc, result>>
    /\ UNCHANGED <<proj, scenes, prompts, movies, batch, op, analysis,
                   entered, outcomes, phaseRaised, escaped, runs,
                   deferredAnnotations, cvars, xvars>>

\* ------------------------------------------------------ specification
PipelineNext ==
    \/ StartWorkflow
    \/ AnalyzeCall
    \/ AnalyzeEnter
    \/ AnalyzeLLM
    \/ AnalyzeStoreCharacters
    \/ AnalyzeStoreSettings
    \/ AnalyzeStoreScenes
    \/ TrailerCall
    \/ TrailerEnter
    \/ TrailerFetch
    \/ TrailerPrompt
    \/ TrailerBatchStart
    \/ \E s \in 1..MaxScenes : JobSucceed(s)
    \/ \E s \in 1..MaxScenes : JobRaise(s)
    \/ TrailerBatchAbort
    \/ TrailerBatchDone
    \/ TrailerAssemble
    \/ StoryboardsCall
    \/ StoryboardsEnter
    \/ StoryboardsAgent
    \/ FullStart
    \/ FullPhase1Enter
    \/ FullPhase1Finish
    \/ FullPhase3
    \/ GenerateCall
    \/ GenerateStart
    \/ GenerateScene


\* =====================================================================
\* The generation client
\* =====================================================================
\* Vendor responses to a submit request.
SubmitResponses ==
    {"ok", "balance_1102", "http_429_other", "http_error", "network_error",
     "malformed"}

\* Vendor responses to a poll request.
PollResponses ==
    {"queued", "succeed", "failed_msg", "failed_nomsg", "http_error",
     "network_error", "malformed"}

\* The first twelve bytes of an image, as the slices the client compares:
\* b0 is data[:4] ("jpeg": starts with FF D8, "png": 89 'PNG', "riff"),
\* b4 is data[4:8] ("pngtail": 0D 0A 1A 0A), b8 is data[8:12]; large tells
\* whether the image exceeds 10 MB.
Images ==
    [b0 : {"jpeg", "png", "riff", "other"},
     b4 : {"pngtail", "ftyp", "heic", "other"},
     b8 : {"WEBP", "avif", "other"},
     large : BOOLEAN]

NoBytes == [b0 |-> "none", b4 |-> "none", b8 |-> "none", large |-> FALSE]

\* Images behind the storyboard URL handed to generate_video_clip: a JPEG,
\* a PNG and an AVIF file.
UrlImages ==
    {[b0 |-> "jpeg", b4 |-> "other", b8 |-> "other", large |-> FALSE],
     [b0 |-> "png", b4 |-> "pngtail", b8 |-> "other", large |-> FALSE],
     [b0 |-> "other", b4 |-> "ftyp", b8 |-> "avif", large |-> FALSE]}

\* _detect_image_mime: the MIME type, or "raise" for the RuntimeError.
_detect_image_mime(data) ==
    IF data.b0 = "jpeg" THEN "image/jpeg"
    ELSE IF data.b0 = "png" /\ data.b4 = "pngtail" THEN "image/png"
    ELSE IF data.b0 = "riff" /\ data.b8 = "WEBP" THEN "image/webp"
    ELSE IF data.b4 \in {"ftyp", "heic"} THEN "raise"
    ELSE "image/jpeg"

NoRequest == [poll |-> "none", mime |-> "none", duration |-> 0]

\* "exp": now + 1800: seconds a signed token stays valid.
TokenLifetime == 1800

ClientInit ==
    /\ cfn \in {"generate_video_clip", "poll_task", "submit_clip_from_bytes"}
    /\ cKeys \in [api : BOOLEAN, secret : BOOLEAN]
    /\ cDuration \in 1..MaxDuration
    /\ cImage \in BOOLEAN
    /\ (cfn = "poll_task") => (cDuration = 5 /\ ~cImage)
    /\ (cfn = "submit_clip_from_bytes") => cImage
    /\ cBytes \in Images \cup {NoBytes}
    /\ cBytes = NoBytes <=> ~cImage
    /\ (cfn = "generate_video_clip" /\ cImage) => cBytes \in UrlImages
    /\ cFetch = "none"
    /\ cRequest = NoRequest
    /\ cTokenAt = 0
    /\ cVariant = "none"
    /\ cpc = "start"
    /\ submits = 0
    /\ attempt = 0
    /\ elapsed = 0
    /\ allQueued = TRUE
    /\ lastResp = [stage |-> "none", kind |-> "none"]
    /\ cOutcome = "none"
    /\ cErrMsg = "none"
    /\ cClipDur = 0

\* No client call in progress (the pipeline specification).
ClientIdle ==
    /\ cfn = "generate_video_clip"
    /\ cKeys = [api |-> FALSE, secret |-> FALSE]
    /\ cDuration = 5
    /\ cImage = FALSE
    /\ cBytes = NoBytes
    /\ cFetch = "none"
    /\ cRequest = NoRequest
    /\ cTokenAt = 0
    /\ cVariant = "none"
    /\ cpc = "start"
    /\ submits = 0
    /\ attempt = 0
    /\ elapsed = 0
    /\ allQueued = TRUE
    /\ lastResp = [stage |-> "none", kind |-> "none"]
    /\ cOutcome = "none"
    /\ cErrMsg = "none"
    /\ cClipDur = 0

\* Mutant: the placeholder is used only when both keys are missing.
CredentialsAbsentBothMissing(keys) == ~keys.api /\ ~keys.secret

\* not settings.kling_api_key or not settings.kling_secret_key
CredentialsAbsent(keys) == ~keys.api \/ ~keys.secret

\* _mock_video_clip: duration if duration in (5, 10) else 5
MockDuration(d) == IF d \in {5, 10} THEN d ELSE 5

\* kling_duration = "5" if duration <= 7 else "10"
KlingDuration(d) == IF d <= 7 THEN 5 ELSE 10

\* What generate_video_clip does with a submit response: go on to poll,
\* return the placeholder, or let an exception out.
SubmitOutcome(resp) ==
    CASE resp = "ok" -> "poll"
      [] resp = "balance_1102" -> "mock"
      [] resp \in {"http_429_other", "http_error"} -> "mock"
      [] resp = "network_error" -> "mock"
      [] OTHER -> "error"

\* Mutant: a vendor "failed" status is absorbed by the fallback.
PollOutcomeFailedMasked(resp) ==
    CASE resp = "queued" -> "continue"
      [] resp = "succeed" -> "completed"
      [] resp \in {"failed_msg", "failed_nomsg"} -> "mock"
      [] resp \in {"http_error", "network_error"} -> "mock"
      [] OTHER -> "error"

\* What generate_video_clip does with a poll response.
PollOutcome(resp) ==
    CASE resp = "queued" -> "continue"
      [] resp = "succeed" -> "completed"
      [] resp \in {"failed_msg", "failed_nomsg"} -> "vendor_failed"
      [] resp \in {"http_error", "network_error"} -> "mock"
      [] OTHER -> "error"

\* Mutant: the exhausted loop falls back to the placeholder.
PollExhaustedFallsBack == "mock"

\* The poll loop ran MAX_POLL_ATTEMPTS times: raise TimeoutError, which no
\* except clause of generate_video_clip catches.
PollExhausted == "timeout"

\* poll_result["data"].get("task_status_msg", "Unknown error")
VendorMessage(resp) ==
    IF resp = "failed_msg" THEN "vendor_msg" ELSE "unknown_error"

\* Mutation: the outcome is recorded but the call does not leave the loop.
ClientEndsWithoutLeaving(o, msg, dur) ==
    /\ cOutcome' = o
    /\ cErrMsg' = msg
    /\ cClipDur' = dur
    /\ cpc' = cpc

\* The call ends with outcome o.
ClientEnds(o, msg, dur) ==
    /\ cOutcome' = o
    /\ cErrMsg' = msg
    /\ cClipDur' = dur
    /\ cpc' = "done"

\* Mutation: the endpoints chosen for an image URL are kept when the fetch
\* brought nothing.
EndpointKeptOnFetchFailure(image, fetch) == IF image THEN "i2v" ELSE "t2v"

\* endpoint and poll_endpoint_base: image2video when a URL was passed and
\* image_b64 is non-empty, text2video otherwise.
Endpoint(image, fetch) == IF image /\ fetch = "ok" THEN "i2v" ELSE "t2v"

\* Credential check, duration mapping, token, image fetch, choice of the
\* submission variant and request body.
ClipStart ==
    /\ cfn = "generate_video_clip"
    /\ cpc = "start"
    /\ IF CredentialsAbsent(cKeys)
       THEN /\ ClientEnds("mock", "none", MockDuration(cDuration))
            /\ UNCHANGED <<cVariant, cFetch, cRequest>>
       ELSE /\ cFetch' \in (IF cImage THEN {"ok", "empty", "failed"}
                             ELSE {"none"})
            /\ cVariant' = Endpoint(cImage, cFetch')
            /\ cRequest' =
                 [poll |-> Endpoint(cImage, cFetch'),
                  mime |-> IF cImage /\ cFetch' = "ok" THEN "image/jpeg"
                           ELSE "none",
                  duration |-> KlingDuration(cDuration)]
            /\ cpc' = "submit"
            /\ UNCHANGED <<cOutcome, cErrMsg, cClipDur>>
    /\ UNCHANGED <<pvars, xvars, cfn, cKeys, cDuration, cImage, cBytes,
                   cTokenAt, submits, attempt, elapsed, allQueued, lastResp>>

\* client.post(endpoint, ...) and the handling of its response.
ClipSubmit ==
    /\ cfn = "generate_video_clip"
    /\ cpc = "submit"
    /\ \E resp \in SubmitResponses :
         /\ lastResp' = [stage |-> "submit", kind |-> resp]
         /\ LET o == SubmitOutcome(resp) IN
            CASE o = "poll" ->
                   /\ cpc' = "poll"
                   /\ UNCHANGED <<cOutcome, cErrMsg, cClipDur>>
              [] o = "mock" ->
                   ClientEnds("mock", "none", MockDuration(cDuration))
              [] OTHER -> ClientEnds("error", "other", 0)
    /\ submits' = submits + 1
    /\ UNCHANGED <<pvars, xvars, cfn, cKeys, cDuration, cImage, cVariant,
                   cBytes, cFetch, cRequest, cTokenAt, attempt, elapsed,
                   allQueued>>

\* Mutation: the token generated before the submit is used throughout.
TokenRefreshNever(a) == FALSE

\* if attempt > 0 and attempt % 100 == 0
TokenRefreshDue(a) == a > 0 /\ a % 100 = 0

\* One iteration of the poll loop: sleep, refresh the token when due, poll,
\* handle the response; the iteration that exhausts the loop falls through
\* to the raise after it.
ClipPoll ==
    /\ cfn = "generate_video_clip"
    /\ cpc = "poll"
    /\ attempt < MAX_POLL_ATTEMPTS
    /\ attempt' = attempt + 1
    /\ elapsed' = elapsed + POLL_INTERVAL_SECONDS
    /\ cTokenAt' = IF TokenRefreshDue(attempt) THEN elapsed' ELSE cTokenAt
    /\ \E resp \in PollResponses :
         /\ lastResp' = [stage |-> "poll", kind |-> resp]
         /\ allQueued' = (allQueued /\ resp = "queued")
         /\ LET o == PollOutcome(resp) IN
            CASE o = "continue" ->
                   IF attempt + 1 = MAX_POLL_ATTEMPTS
                   THEN ClientEnds(PollExhausted, "timed_out",
                                   IF PollExhausted = "mock"
                                   THEN MockDuration(cDuration) ELSE 0)
                   ELSE UNCHANGED <<cpc, cOutcome, cErrMsg, cClipDur>>
              [] o = "completed" ->
                   ClientEnds("completed", "none", KlingDuration(cDuration))
              [] o = "vendor_failed" ->
                   ClientEnds("vendor_failed", VendorMessage(resp), 0)
              [] o = "mock" ->
                   ClientEnds("mock", "none", MockDuration(cDuration))
              [] OTHER -> ClientEnds("error", "other", 0)
    /\ UNCHANGED <<pvars, xvars, cfn, cKeys, cDuration, cImage, cVariant,
                   cBytes, cFetch, cRequest, submits>>

\* submit_clip_from_bytes: credentials, size limit, format check, token,
\* one image2video submit; returns the task id without polling.
BytesSubmit ==
    /\ cfn = "submit_clip_from_bytes"
    /\ cpc = "start"
    /\ IF CredentialsAbsent(cKeys)
       THEN /\ ClientEnds("error", "no_credentials", 0)
            /\ UNCHANGED <<cVariant, cRequest, submits, lastResp>>
       ELSE IF cBytes.large
       THEN /\ ClientEnds("error", "too_large", 0)
            /\ UNCHANGED <<cVariant, cRequest, submits, lastResp>>
       ELSE IF _detect_image_mime(cBytes) = "raise"
       THEN /\ ClientEnds("error", "unsupported_format", 0)
            /\ UNCHANGED <<cVariant, cRequest, submits, lastResp>>
       ELSE /\ cVariant' = "i2v"
            /\ cRequest' = [poll |-> "none",
                            mime |-> _detect_image_mime(cBytes),
                            duration |-> KlingDuration(cDuration)]
            /\ submits' = submits + 1
            /\ \E resp \in SubmitResponses :
                 /\ lastResp' = [stage |-> "submit", kind |-> resp]
                 /\ IF resp = "ok"
                    THEN ClientEnds("submitted", "none", 0)
                    ELSE ClientEnds("error",
                             IF resp \in {"network_error", "malformed"}
                             THEN "other" ELSE "rejected", 0)
    /\ UNCHANGED <<pvars, xvars, cfn, cKeys, cDuration, cImage, cBytes,
                   cFetch, cTokenAt, attempt, elapsed, allQueued>>

\* ------------------------------------- core/kling.py KlingClient.poll_task
\* What poll_task does with a poll response.
KlingPollOutcome(resp) ==
    CASE resp = "queued" -> "continue"
      [] resp = "succeed" -> "completed"
      [] resp \in {"failed_msg", "failed_nomsg"} -> "vendor_failed"
      [] OTHER -> "error"

\* task_data.get('task_status_msg', 'unknown error')
KlingVendorMessage(resp) ==
    IF resp = "failed_msg" THEN "vendor_msg" ELSE "unknown_error"

\* One iteration of `while elapsed < max_wait`; _auth_headers raises when a
\* credential is missing; the iteration that ends the loop falls through
\* to the TimeoutError after it.
KlingPoll ==
    /\ cfn = "poll_task"
    /\ cpc \in {"start", "poll"}
    /\ elapsed < max_wait
    /\ IF ~cKeys.api \/ ~cKeys.secret
       THEN /\ ClientEnds("error", "no_credentials", 0)
            /\ UNCHANGED <<attempt, elapsed, allQueued, lastResp>>
       ELSE /\ attempt' = attempt + 1
            /\ \E resp \in PollResponses :
                 /\ lastResp' = [stage |-> "poll", kind |-> resp]
                 /\ allQueued' = (allQueued /\ resp = "queued")
                 /\ LET o == KlingPollOutcome(resp) IN
                    CASE o = "continue" ->
                           /\ elapsed' = elapsed + poll_interval
                           /\ IF elapsed + poll_interval >= max_wait
                              THEN ClientEnds("timeout", "timed_out", 0)
                              ELSE /\ cpc' = "poll"
                                   /\ UNCHANGED <<cOutcome, cErrMsg, cClipDur>>
                      [] o = "completed" ->
                           /\ ClientEnds("completed", "none", 0)
                           /\ UNCHANGED elapsed
                      [] o = "vendor_failed" ->
                           /\ ClientEnds("vendor_failed",
                                         KlingVendorMessage(resp), 0)
                           /\ UNCHANGED elapsed
                      [] OTHER ->
                           /\ ClientEnds("error", "other", 0)
                           /\ UNCHANGED elapsed
    /\ UNCHANGED <<pvars, xvars, cfn, cKeys, cDuration, cImage, cVariant,
                   cBytes, cFetch, cRequest, cTokenAt, submits>>

ClientNext ==
    \/ ClipStart
    \/ ClipSubmit
    \/ ClipPoll
    \/ BytesSubmit
    \/ KlingPoll

\* =====================================================================
\* Phase 1 data: Scene / Character / Setting rows
\* =====================================================================
MaxListed == 2        \* scenes in one narrative-service analysis
MaxSceneNumber == 3   \* largest sceneNumber the service returns
MaxSelected == 2      \* length of selectedSceneNumbers

\* Names the narrative service uses for characters and settings.
Names == {"x", "y"}

\* SceneOutput / SceneData: what the service returns for one scene.
SceneOutputs ==
    [num : 1..MaxSceneNumber, setting : Names, chars : SUBSET Names]

\* Sequences over S of length at most n.
SeqsUpTo(S, n) == UNION {[1..k -> S] : k \in 0..n}

\* ScriptAnalysisOutput: characters, settings and scenes of one analysis.
AnalysisOutputs ==
    [chars : SUBSET Names, settings : SUBSET Names,
     scenes : SeqsUpTo(SceneOutputs, MaxListed)]

NoAnalysis == [chars |-> {}, settings |-> {}, scenes |-> <<>>]

\* The pipeline variables the Phase 1 functions leave alone.
pframe == <<scenes, prompts, videos, movies, op, pc, idx, analysis, entered,
            outcomes, phaseRaised, escaped, result, jobs, batchBase,
            movieBase, genFailed, genSkipped, genCreated, runs,
            deferredAnnotations>>

\* The pipeline is not running.
PipelineIdle == PipelineInit /\ deferredAnnotations

Phase1Idle ==
    /\ p1fn = "analyze_script"
    /\ p1pc = "start"
    /\ llm = NoAnalysis
    /\ sceneRows = <<>>
    /\ characters = {}
    /\ settingRows = {}
    /\ selected = <<>>

Phase1Init ==
    /\ p1fn \in {"run_phase1", "analyze_script"}
    /\ p1pc = "start"
    /\ llm = NoAnalysis
    /\ sceneRows = <<>>
    /\ characters = {}
    /\ settingRows = {}
    /\ selected = <<>>

\* Scene(...) as agents/script_analysis.py builds it: order = sceneNumber.
AgentSceneRow(s) ==
    [num |-> s.num, order |-> s.num, setting |-> s.setting, chars |-> s.chars]

\* Scene(...) as service.analyze_script builds it: order = sceneNumber - 1.
ServiceSceneRow(s) ==
    [num |-> s.num, order |-> s.num - 1, setting |-> s.setting,
     chars |-> s.chars]

\* db.add(Scene(...)) for each listed scene, in the list's order; agent
\* tells which of the two constructions builds the row.
StoreScenes(rows, listed, agent) ==
    rows \o [k \in 1..Len(listed) |->
               IF agent THEN AgentSceneRow(listed[k])
               ELSE ServiceSceneRow(listed[k])]

\* select(Scene).order_by(Scene.sceneNumber): row indices by sceneNumber,
\* rows with the same number in insertion order.
BySceneNumber(rows) ==
    CHOOSE p \in [1..Len(rows) -> 1..Len(rows)] :
        /\ \A i, j \in 1..Len(rows) : i # j => p[i] # p[j]
        /\ \A i, j \in 1..Len(rows) :
             i < j => \/ rows[p[i]].num < rows[p[j]].num
                      \/ rows[p[i]].num = rows[p[j]].num /\ p[i] < p[j]

\* scenes_by_number = {s.sceneNumber: s for s in scenes}: the last row of
\* the listing that carries number n (0 when there is none).
SceneByNumber(rows, n) ==
    LET p == BySceneNumber(rows)
        at == {i \in 1..Len(rows) : rows[p[i]].num = n}
    IN IF at = {} THEN 0
       ELSE p[CHOOSE i \in at : \A j \in at : j <= i]

\* Entries of selected_numbers that name a scene: len(selected_scenes).
SelectedCount(rows, sel) ==
    Cardinality({i \in 1..Len(sel) : SceneByNumber(rows, sel[i]) # 0})

\* First loop of select_trailer_scenes: scene.order = i for the i-th
\* selected number; a later assignment to the same row overwrites.
SelectedOrder(rows, sel, r) ==
    LET at == {i \in 1..Len(sel) : SceneByNumber(rows, sel[i]) = r}
    IN IF at = {} THEN rows[r].order
       ELSE CHOOSE i \in at : \A j \in at : j <= i

\* Second loop: every scene whose number is not in selected_numbers gets
\* next_order, counted from len(selected_scenes) + 1 in listing order.
RemainingOrder(rows, sel, r) ==
    LET p == BySceneNumber(rows)
        nums == {sel[i] : i \in 1..Len(sel)}
        pos == CHOOSE i \in 1..Len(rows) : p[i] = r
        before == {i \in 1..(pos - 1) : rows[p[i]].num \notin nums}
    IN SelectedCount(rows, sel) + 1 + Cardinality(before)

\* select_trailer_scenes: the rows with their new order values.
select_trailer_scenes(rows, sel) ==
    LET nums == {sel[i] : i \in 1..Len(sel)}
    IN [r \in 1..Len(rows) |->
          [rows[r] EXCEPT !.order =
              IF rows[r].num \in nums THEN SelectedOrder(rows, sel, r)
              ELSE RemainingOrder(rows, sel, r)]]

\* A write to the project row by a Phase 1 function.
P1Project(st, pr, em) ==
    /\ status' = st
    /\ progress' = pr
    /\ errorMessage' = em
    /\ UNCHANGED <<pframe, cvars, tvars, avars, bvars, rvars, p1fn>>

\* except block of run_phase1: failed + message, progress untouched, raise.
P1Fails(e) ==
    /\ P1Project("failed", progress, e)
    /\ p1pc' = "raised"
    /\ UNCHANGED <<llm, sceneRows, characters, settingRows, selected>>

\* agents/script_analysis.py analyze_script, up to the service call.
P1AgentEnter ==
    /\ p1fn = "run_phase1"
    /\ p1pc = "start"
    /\ P1Project("analyzing", 10, errorMessage)
    /\ p1pc' = "ag_llm"
    /\ UNCHANGED <<llm, sceneRows, characters, settingRows, selected>>

\* The service returns the scene list (or the call raises); every scene is
\* stored with order = sceneNumber.
P1AgentAnalyze ==
    /\ p1fn = "run_phase1"
    /\ p1pc = "ag_llm"
    /\ \/ P1Fails("llm_error")
       \/ \E listed \in SeqsUpTo(SceneOutputs, MaxListed) :
            /\ sceneRows' = StoreScenes(sceneRows, listed, TRUE)
            /\ P1Project(status, 20, errorMessage)
            /\ p1pc' = "ag_chars"
            /\ UNCHANGED <<llm, characters, settingRows, selected>>

\* agents/character_consistency.py extract_characters
P1ExtractCharacters ==
    /\ p1fn = "run_phase1"
    /\ p1pc = "ag_chars"
    /\ \/ P1Fails("llm_error")
       \/ \E cs \in SUBSET Names :
            /\ characters' = characters \cup cs
            /\ P1Project(status, 30, errorMessage)
            /\ p1pc' = "ag_settings"
            /\ UNCHANGED <<llm, sceneRows, settingRows, selected>>

\* agents/setting_consistency.py extract_settings
P1ExtractSettings ==
    /\ p1fn = "run_phase1"
    /\ p1pc = "ag_settings"
    /\ \/ P1Fails("llm_error")
       \/ \E ss \in SUBSET Names :
            /\ settingRows' = settingRows \cup ss
            /\ P1Project(status, 50, errorMessage)
            /\ p1pc' = "ag_select"
            /\ UNCHANGED <<llm, sceneRows, characters, selected>>

\* agents/trailer_selection.py select_trailer_scenes
P1SelectScenes ==
    /\ p1fn = "run_phase1"
    /\ p1pc = "ag_select"
    /\ \/ P1Fails("llm_error")
       \/ \E sel \in SeqsUpTo(1..MaxSceneNumber, MaxSelected) :
            /\ selected' = sel
            /\ sceneRows' = select_trailer_scenes(sceneRows, sel)
            /\ P1Project(status, 70, errorMessage)
            /\ p1pc' = "ag_complete"
            /\ UNCHANGED <<llm, characters, settingRows>>

\* run_phase1 after its four steps.
P1Complete ==
    /\ p1fn = "run_phase1"
    /\ p1pc = "ag_complete"
    /\ P1Project("phase1_complete", 100, errorMessage)
    /\ p1pc' = "done"
    /\ UNCHANGED <<llm, sceneRows, characters, settingRows, selected>>

\* except block of service.analyze_script: failed, progress 0, raise.
SvcFails(e) ==
    /\ P1Project("failed", 0, e)
    /\ p1pc' = "raised"
    /\ UNCHANGED <<llm, sceneRows, characters, settingRows, selected>>

\* service.analyze_script: status parsing, progress 10.
SvcEnter ==
    /\ p1fn = "analyze_script"
    /\ p1pc = "start"
    /\ P1Project("parsing", 10, errorMessage)
    /\ p1pc' = "svc_llm"
    /\ UNCHANGED <<llm, sceneRows, characters, settingRows, selected>>

\* The service returns a ScriptAnalysisOutput, or the call raises.
SvcLLM ==
    /\ p1fn = "analyze_script"
    /\ p1pc = "svc_llm"
    /\ \/ SvcFails("llm_error")
       \/ \E a \in AnalysisOutputs :
            /\ llm' = a
            /\ P1Project(status, 40, errorMessage)
            /\ p1pc' = "svc_chars"
            /\ UNCHANGED <<sceneRows, characters, settingRows, selected>>

SvcStoreCharacters ==
    /\ p1fn = "analyze_script"
    /\ p1pc = "svc_chars"
    /\ characters' = characters \cup llm.chars
    /\ P1Project(status, 60, errorMessage)
    /\ p1pc' = "svc_settings"
    /\ UNCHANGED <<llm, sceneRows, settingRows, selected>>

SvcStoreSettings ==
    /\ p1fn = "analyze_script"
    /\ p1pc = "svc_settings"
    /\ settingRows' = settingRows \cup llm.settings
    /\ P1Project(status, 80, errorMessage)
    /\ p1pc' = "svc_scenes"
    /\ UNCHANGED <<llm, sceneRows, characters, selected>>

\* Every scene is stored with order = sceneNumber - 1; project parsed.
SvcStoreScenes ==
    /\ p1fn = "analyze_script"
    /\ p1pc = "svc_scenes"
    /\ sceneRows' = StoreScenes(sceneRows, llm.scenes, FALSE)
    /\ P1Project("parsed", 100, "none")
    /\ p1pc' = "done"
    /\ UNCHANGED <<llm, characters, settingRows, selected>>

Phase1Next ==
    \/ P1AgentEnter
    \/ P1AgentAnalyze
    \/ P1ExtractCharacters
    \/ P1ExtractSettings
    \/ P1SelectScenes
    \/ P1Complete
    \/ SvcEnter
    \/ SvcLLM
    \/ SvcStoreCharacters
    \/ SvcStoreSettings
    \/ SvcStoreScenes

\* =====================================================================
\* Final assembly: VideoAssemblyAgent.execute and the tail of
\* generate_trailer
\* =====================================================================
MaxAsmScenes == 2   \* scenes of the project being assembled
MaxAsmVideos == 2   \* GeneratedVideo rows the assembly agent finds
MaxClips == 3       \* clips of the batch generate_trailer assembles

\* GeneratedVideo rows of scenes 1..n: completed with a duration, or failed.
AsmVideoRows(n) ==
    {VideoRow(s, "completed", d) : s \in 1..n, d \in ClipDurations}
        \cup {VideoRow(s, "failed", 0) : s \in 1..n}

\* video_by_scene = {v.sceneId: v for v in <completed rows>}: index of the
\* last completed row of scene s (0 when there is none).
VideoByScene(rows, s) ==
    LET at == {k \in 1..Len(rows) :
                 rows[k].sceneId = s /\ rows[k].status = "completed"}
    IN IF at = {} THEN 0 ELSE CHOOSE k \in at : \A j \in at : j <= k

\* A listing that ignores Scene.order: the scenes by id.
ByOrderById(ord) == {[i \in 1..Len(ord) |-> i]}

\* select(Scene).order_by(Scene.order): the listings the database may
\* return; scenes with equal order come in any order.
ByOrder(ord) ==
    {p \in [1..Len(ord) -> 1..Len(ord)] :
        /\ \A i, j \in 1..Len(ord) : i # j => p[i] # p[j]
        /\ \A i, j \in 1..Len(ord) : i < j => ord[p[i]] <= ord[p[j]]}

\* total_duration = sum(video_by_scene[s.id].duration or 0 for s in scenes
\*                      if s.id in video_by_scene)
AgentTotalDuration(rows, n) ==
    SumDur([s \in 1..n |->
              IF VideoByScene(rows, s) = 0 THEN 0
              ELSE rows[VideoByScene(rows, s)].duration])

\* raw_{scene.order:03d}.mp4: the download path is named by the order.
RawPath(ord, s) == ord[s]

\* combined_{scene.order:03d}.mp4: a second family of paths, by order too.
CombinedPath(ord, s) == MaxAsmScenes + ord[s]

\* Values of Scene.dialogue: whitespace only (NULL and the empty string
\* take the same branch), spoken text.
Dialogues == {"blank", "text"}

\* if scene.dialogue and scene.dialogue.strip()
HasDialogue(d) == d = "text"

\* Mutation: the merged path is used whenever the scene has dialogue.
OutputPathIgnoringFailure(ord, s, d, merged) ==
    IF HasDialogue(d) THEN CombinedPath(ord, s) ELSE RawPath(ord, s)

\* output_path: raw_path unless the scene has dialogue and both the
\* synthesis and the merge went through.
OutputPath(ord, s, d, merged) ==
    IF HasDialogue(d) /\ merged THEN CombinedPath(ord, s) ELSE RawPath(ord, s)

\* The clips the concatenated file is made of: for each entry of the
\* concat list, the scene whose download is stored at that path.
Concatenate(list, stored) == [k \in 1..Len(list) |-> stored[list[k].path]]

AsmIdle ==
    /\ afn = "execute"
    /\ apc = "start"
    /\ aOrder = <<>>
    /\ aSeq = <<>>
    /\ aidx = 0
    /\ attempts = <<>>
    /\ files = [o \in 1..(2 * MaxAsmScenes) |-> 0]
    /\ scene_clips = <<>>
    /\ dialogue = <<>>
    /\ narration = <<>>
    /\ movieClips = <<>>
    /\ aResult = "none"

\* A project at status st / progress pr with no entry point running.
ProjectAt(st, pr) ==
    /\ status = st
    /\ progress = pr
    /\ errorMessage = "none"
    /\ prompts = {}
    /\ movies = <<>>
    /\ op = "idle"
    /\ pc = "idle"
    /\ idx = 0
    /\ analysis = 0
    /\ entered = <<>>
    /\ outcomes = <<>>
    /\ phaseRaised = "none"
    /\ escaped = "none"
    /\ result = "none"
    /\ jobs = <<>>
    /\ batchBase = 0
    /\ movieBase = 0
    /\ genFailed = 0
    /\ genSkipped = 0
    /\ genCreated = 0
    /\ runs = 0
    /\ deferredAnnotations = TRUE

\* The project when assembly starts: clips generated, nothing assembled.
AsmProject == ProjectAt("generating_videos", 45)

\* The agent finds any scenes and clip rows; generate_trailer assembles
\* the batch it just stored, one completed clip per scene.
AsmInit ==
    /\ AsmProject
    /\ afn \in {"execute", "generate_trailer"}
    /\ IF afn = "execute"
       THEN /\ scenes \in 0..MaxAsmScenes
            /\ aOrder \in [1..scenes -> 1..MaxAsmScenes]
            /\ dialogue \in [1..scenes -> Dialogues]
            /\ videos \in SeqsUpTo(AsmVideoRows(scenes), MaxAsmVideos)
       ELSE /\ scenes \in 1..MaxClips
            /\ aOrder = [s \in 1..scenes |-> s]
            /\ dialogue = [s \in 1..scenes |-> "blank"]
            /\ videos \in [1..scenes -> AsmVideoRows(scenes)]
            /\ \A s \in 1..scenes : VideoByScene(videos, s) # 0
    /\ apc = "start"
    /\ aSeq = <<>>
    /\ aidx = 0
    /\ attempts = [s \in 1..scenes |-> 0]
    /\ files = [o \in 1..(2 * MaxAsmScenes) |-> 0]
    /\ scene_clips = <<>>
    /\ narration = [s \in 1..scenes |-> "pending"]
    /\ movieClips = <<>>
    /\ aResult = "none"

\* The pipeline variables assembly leaves alone.
aframe == <<errorMessage, scenes, prompts, videos, op, pc, idx, analysis,
            entered, outcomes, phaseRaised, escaped, result, jobs,
            batchBase, movieBase, genFailed, genSkipped, genCreated, runs,
            deferredAnnotations>>

\* execute returns / raises with result r, nothing persisted.
AsmEnds(r) ==
    /\ aResult' = r
    /\ apc' = "done"
    /\ UNCHANGED <<status, progress, movies, movieClips>>

\* Load the scenes by order and the completed clips.
AsmStart ==
    /\ afn = "execute"
    /\ apc = "start"
    /\ IF scenes = 0 \/ \A s \in 1..scenes : VideoByScene(videos, s) = 0
       THEN AsmEnds("error") /\ UNCHANGED <<aSeq, aidx>>
       ELSE /\ aSeq' \in ByOrder(aOrder)
            /\ aidx' = 1
            /\ apc' = "loop"
            /\ UNCHANGED <<status, progress, movies, movieClips, aResult>>
    /\ UNCHANGED <<aframe, cvars, tvars, p1vars, bvars, rvars, afn, aOrder,
                   attempts, files, scene_clips, dialogue, narration>>

\* Step 4 of the loop for scene s, its clip downloaded: n is how the
\* narration ended ("no_dialogue", "tts_failed", "merge_failed", "merged").
\* The merge writes the combined file; one path joins the concat list.
AsmNarrate(s, n) ==
    /\ narration' = [narration EXCEPT ![s] = n]
    /\ files' = [files EXCEPT
           ![RawPath(aOrder, s)] = s,
           ![CombinedPath(aOrder, s)] = IF n = "merged" THEN s ELSE @]
    /\ scene_clips' = Append(scene_clips,
           [scene |-> s,
            path |-> OutputPath(aOrder, s, dialogue[s], n = "merged")])

\* One iteration of the scene loop: skip a scene without a completed clip,
\* download once, skip on a failed download, else narrate and add one path
\* to the list.
AsmScene ==
    /\ afn = "execute"
    /\ apc = "loop"
    /\ LET s == aSeq[aidx] IN
         IF VideoByScene(videos, s) = 0
         THEN UNCHANGED <<attempts, files, scene_clips, narration>>
         ELSE /\ attempts' = [attempts EXCEPT ![s] = @ + 1]
              /\ \/ UNCHANGED <<files, scene_clips, narration>>
                 \/ IF HasDialogue(dialogue[s])
                    THEN \E n \in {"tts_failed", "merge_failed", "merged"} :
                             AsmNarrate(s, n)
                    ELSE AsmNarrate(s, "no_dialogue")
    /\ IF aidx = scenes
       THEN apc' = "concat" /\ aidx' = aidx
       ELSE apc' = "loop" /\ aidx' = aidx + 1
    /\ UNCHANGED <<aframe, cvars, tvars, p1vars, bvars, rvars, afn, aOrder,
                   aSeq, dialogue, status, progress, movies, movieClips,
                   aResult>>

\* After the loop: error when nothing downloaded; else concatenate (the
\* ffmpeg run may raise), persist the FinalMovie, mark the project.
AsmFinish ==
    /\ afn = "execute"
    /\ apc = "concat"
    /\ IF scene_clips = <<>>
       THEN AsmEnds("error")
       ELSE \/ Len(scene_clips) > 1 /\ AsmEnds("raised")
            \/ /\ movieClips' = Concatenate(scene_clips, files)
               /\ movies' = Append(movies,
                              MovieRow(AgentTotalDuration(videos, scenes)))
               /\ status' = "completed"
               /\ progress' = 100
               /\ aResult' = "success"
               /\ apc' = "done"
    /\ UNCHANGED <<aframe, cvars, tvars, p1vars, bvars, rvars, afn, aOrder,
                   aSeq, aidx, attempts, files, scene_clips, dialogue,
                   narration>>

\* generate_trailer after gather: clips in scene order, assemble_trailer,
\* FinalMovie with its totalDuration; the placeholder's URL is the first
\* clip's.
AsmTrailer ==
    /\ afn = "generate_trailer"
    /\ apc = "start"
    /\ movies' = Append(movies,
           MovieRow(assemble_trailer(
               [s \in 1..scenes |-> videos[VideoByScene(videos, s)].duration])))
    /\ movieClips' = <<1>>
    /\ status' = "completed"
    /\ progress' = 100
    /\ aResult' = "success"
    /\ apc' = "done"
    /\ UNCHANGED <<aframe, cvars, tvars, p1vars, bvars, rvars, afn, aOrder,
                   aSeq, aidx, attempts, files, scene_clips, dialogue,
                   narration>>

AssemblyNext ==
    \/ AsmStart
    \/ AsmScene
    \/ AsmFinish
    \/ AsmTrailer

\* =====================================================================
\* Phase 2: run_generate_storyboards and StoryboardPromptAgent.execute
\* =====================================================================
MaxBoardScenes == 2   \* scenes a project may come to hold
MaxBoardRuns == 2     \* Phase 2 runs

BoardRow(s, st) == [sceneId |-> s, status |-> st]

\* Rows _upsert_storyboard's select finds for scene s.
Existing(rows, s) == {k \in 1..Len(rows) : rows[k].sceneId = s}

\* An upsert that never looks for an existing row.
upsert_storyboard_add(rows, s, st) == Append(rows, BoardRow(s, st))

\* _upsert_storyboard: update the scene's row in place, or add one.
upsert_storyboard(rows, s, st) ==
    IF Existing(rows, s) = {}
    THEN Append(rows, BoardRow(s, st))
    ELSE [k \in 1..Len(rows) |->
            IF k \in Existing(rows, s) THEN BoardRow(s, st) ELSE rows[k]]

\* execute returns a dict with status st and message m.
Returned(st, m) == [kind |-> "return", status |-> st, message |-> m]

\* execute raises an exception whose text is m.
Raised(m) == [kind |-> "raise", status |-> "none", message |-> m]

NoResult == [status |-> "none", message |-> "none"]

\* A wrapper that lets the exception through.
safe_execute_reraise(out) ==
    [raised |-> out.kind = "raise", status |-> out.status,
     message |-> out.message]

\* BaseAgent.safe_execute: the dict execute returned, or for an exception
\* {"status": "error", "message": str(e)}.
safe_execute(out) ==
    [raised |-> FALSE,
     status |-> IF out.kind = "raise" THEN "error" ELSE out.status,
     message |-> out.message]

BoardIdle ==
    /\ bpc = "idle"
    /\ bidx = 0
    /\ boards = <<>>
    /\ frames_failed = 0
    /\ executed = Returned("none", "none")
    /\ bResult = NoResult
    /\ bEscaped = "none"
    /\ bRuns = 0
    /\ trailerKey = "absent"

\* A project after Phase 1, as seed_phase1_data leaves it: parsed / 33,
\* some scenes, and for each scene no StoryboardImage or a seeded one.
\* The mapped Project class has no trailerKey column: an instance loaded
\* from the database lacks the attribute, the seeding session's instance
\* carries it.
BoardInit ==
    /\ ProjectAt("parsed", 33)
    /\ scenes \in 0..MaxBoardScenes
    /\ videos = <<>>
    /\ bpc = "idle"
    /\ bidx = 0
    /\ \E seeded \in SUBSET (1..scenes) :
         boards \in {r \in [1..Cardinality(seeded) ->
                               {BoardRow(s, "completed") : s \in seeded}] :
                       \A i, j \in 1..Cardinality(seeded) :
                           i < j => r[i].sceneId < r[j].sceneId}
    /\ frames_failed = 0
    /\ executed = Returned("none", "none")
    /\ bResult = NoResult
    /\ bEscaped = "none"
    /\ bRuns = 0
    /\ trailerKey \in {"absent", "none", "set"}

\* The pipeline variables Phase 2 leaves alone.
bframe == <<prompts, videos, movies, op, pc, idx, analysis, entered,
            outcomes, phaseRaised, escaped, result, jobs, batchBase,
            movieBase, genFailed, genSkipped, genCreated, runs,
            deferredAnnotations>>

\* execute ended with out: safe_execute hands run_generate_storyboards a
\* dict, which writes 66 for success / partial and else marks the project
\* failed with the dict's message (progress stays pr); an exception would
\* reach its except block, be recorded and raised again.
BoardReturn(out, pr) ==
    /\ executed' = out
    /\ bpc' = "done"
    /\ IF safe_execute(out).raised
       THEN /\ bResult' = NoResult
            /\ bEscaped' = out.message
            /\ status' = "failed"
            /\ progress' = pr
            /\ errorMessage' = out.message
       ELSE /\ bResult' = [status |-> safe_execute(out).status,
                           message |-> safe_execute(out).message]
            /\ bEscaped' = "none"
            /\ IF safe_execute(out).status \in {"success", "partial"}
               THEN /\ progress' = 66
                    /\ status' = "generating_storyboard"
                    /\ UNCHANGED errorMessage
               ELSE /\ status' = "failed"
                    /\ progress' = pr
                    /\ errorMessage' = safe_execute(out).message

\* Phase 1 stores another scene between two Phase 2 runs.
BoardAddScene ==
    /\ bpc \in {"idle", "done"}
    /\ scenes < MaxBoardScenes
    /\ scenes' = scenes + 1
    /\ UNCHANGED <<bframe, cvars, tvars, p1vars, avars, rvars, bvars, status,
                   progress, errorMessage>>

\* run_generate_storyboards up to the scene loop: generating_storyboard /
\* 40, then execute reads trailerKey, lists the scenes and downloads the
\* trailer.
BoardStart ==
    /\ bpc \in {"idle", "done"}
    /\ bRuns < MaxBoardRuns
    /\ bRuns' = bRuns + 1
    /\ frames_failed' = 0
    /\ \/ /\ trailerKey = "absent"
          /\ BoardReturn(Raised("attribute_error"), 40)
          /\ bidx' = bidx
       \/ /\ trailerKey = "none"
          /\ BoardReturn(Returned("error", "no_trailer"), 40)
          /\ bidx' = bidx
       \/ /\ trailerKey = "set" /\ scenes = 0
          /\ BoardReturn(Returned("error", "no_scenes"), 40)
          /\ bidx' = bidx
       \/ /\ trailerKey = "set" /\ scenes > 0
          /\ BoardReturn(Raised("download_failed"), 40)
          /\ bidx' = bidx
       \/ /\ trailerKey = "set" /\ scenes > 0
          /\ bpc' = "loop"
          /\ bidx' = 1
          /\ bResult' = NoResult
          /\ bEscaped' = "none"
          /\ status' = "generating_storyboard"
          /\ progress' = 40
          /\ UNCHANGED <<errorMessage, executed>>
    /\ UNCHANGED <<bframe, cvars, tvars, p1vars, avars, rvars, scenes, boards,
                   trailerKey>>

\* One iteration of the scene loop: the scene lies outside the trailer, no
\* frame is extracted, no frame is adequate (each stored as failed), the
\* index _pick_best_frame returned lies past the candidates (IndexError) or
\* the upload raises, or the chosen frame is stored as completed.  The
\* upsert's scalar_one_or_none raises when it finds more than one row.
BoardScene ==
    /\ bpc = "loop"
    /\ \/ /\ Cardinality(Existing(boards, bidx)) <= 1
          /\ \E st \in {"failed", "completed"} :
               /\ boards' = upsert_storyboard(boards, bidx, st)
               /\ frames_failed' =
                    IF st = "failed" THEN frames_failed + 1 ELSE frames_failed
          /\ IF bidx = scenes
             THEN bpc' = "finish" /\ bidx' = bidx
             ELSE bpc' = "loop" /\ bidx' = bidx + 1
          /\ UNCHANGED <<status, progress, errorMessage, executed, bResult,
                         bEscaped>>
       \/ /\ Cardinality(Existing(boards, bidx)) > 1
          /\ BoardReturn(Raised("multiple_rows"), progress)
          /\ UNCHANGED <<boards, frames_failed, bidx>>
       \/ /\ \E m \in {"index_error", "upload_failed"} :
               BoardReturn(Raised(m), progress)
          /\ UNCHANGED <<boards, frames_failed, bidx>>
    /\ UNCHANGED <<bframe, cvars, tvars, p1vars, avars, rvars, scenes, bRuns,
                   trailerKey>>

\* execute returns success or partial; run_generate_storyboards writes 66.
BoardFinish ==
    /\ bpc = "finish"
    /\ BoardReturn(Returned(IF frames_failed = 0 THEN "success"
                            ELSE "partial", "processed"), progress)
    /\ UNCHANGED <<bframe, cvars, tvars, p1vars, avars, rvars, scenes, bidx,
                   boards, frames_failed, bRuns, trailerKey>>

BoardNext ==
    \/ BoardAddScene
    \/ BoardStart
    \/ BoardScene
    \/ BoardFinish

\* =====================================================================
\* Concurrency: background pipeline tasks and the shared session
\* =====================================================================
MaxStarts == 3        \* calls of start_workflow for the project
MaxSessionJobs == 3   \* jobs of the gathered batch

TasksIdle ==
    /\ tasks = <<>>
    /\ sjobs = <<>>
    /\ pending = {}
    /\ committed = {}

\* The pipeline variables a background task writes through its phases are
\* status, progress and errorMessage.
tframe == <<pframe, cvars, p1vars, avars, bvars, rvars>>

\* -------------------------------------------------- workflow/service.py
\* start_workflow: the project exists; create_task(_run_pipeline(id)) and
\* return.  Nothing is read of, or recorded about, tasks already running.
TaskStart ==
    /\ Len(tasks) < MaxStarts
    /\ tasks' = Append(tasks, "begin")
    /\ UNCHANGED <<status, progress, errorMessage, tframe, sjobs, pending,
                   committed>>

\* Head of _run_pipeline: Phase 1 runs for draft / parsing / failed.
TaskEnter(r) ==
    /\ tasks[r] = "begin"
    /\ tasks' = [tasks EXCEPT ![r] =
                    IF status \in {"draft", "parsing", "failed"}
                    THEN "phase1" ELSE "phase3"]
    /\ UNCHANGED <<status, progress, errorMessage, tframe, sjobs, pending,
                   committed>>

\* analyze_script as one step per write: parsing on entry is folded into
\* the start of the step, parsed / 100 at its end, failed / 0 when it
\* raises (the task then ends in the except block of _run_pipeline).
TaskPhase1(r) ==
    /\ tasks[r] = "phase1"
    /\ \/ /\ status' = "parsed"
          /\ progress' = 100
          /\ errorMessage' = errorMessage
          /\ tasks' = [tasks EXCEPT ![r] = "phase3"]
       \/ /\ status' = "failed"
          /\ progress' = 0
          /\ errorMessage' = "llm_error"
          /\ tasks' = [tasks EXCEPT ![r] = "ended"]
    /\ UNCHANGED <<tframe, sjobs, pending, committed>>

\* generate_trailer: completed / 100, or failed / 0 when it raises.
TaskPhase3(r) ==
    /\ tasks[r] = "phase3"
    /\ \/ /\ status' = "completed"
          /\ progress' = 100
          /\ errorMessage' = "none"
       \/ /\ status' = "failed"
          /\ progress' = 0
          /\ errorMessage' = "job_failed"
    /\ tasks' = [tasks EXCEPT ![r] = "ended"]
    /\ UNCHANGED <<tframe, sjobs, pending, committed>>

RunsInit == ProjectAt("draft", 0) /\ scenes = 0 /\ videos = <<>>

RunsNext ==
    \/ TaskStart
    \/ \E r \in DOMAIN tasks : TaskEnter(r)
    \/ \E r \in DOMAIN tasks : TaskPhase1(r)
    \/ \E r \in DOMAIN tasks : TaskPhase3(r)

\* ------------------- storyboard_to_movie/service.py _generate_and_store
\* Positions of a job: "clip" (inside generate_video_clip), "commit"
\* (db.add done, suspended inside await db.commit()), "stored", "raised"
\* (generate_video_clip raised), "db_error" (the commit raised).
SessionInit ==
    /\ ProjectAt("generating_videos", 45)
    /\ scenes \in 1..MaxSessionJobs
    /\ videos = <<>>
    /\ tasks = <<"phase3">>
    /\ sjobs = [s \in 1..scenes |-> "clip"]
    /\ pending = {}
    /\ committed = {}

\* The jobs suspended inside an operation on the shared session.
InSession == {s \in DOMAIN sjobs : sjobs[s] = "commit"}

\* generate_video_clip returned in job s: db.add(db_video), then the job
\* suspends in await db.commit().  No lock is taken.
SessClipReturns(s) ==
    /\ sjobs[s] = "clip"
    /\ sjobs' = [sjobs EXCEPT ![s] = "commit"]
    /\ pending' = pending \cup {s}
    /\ UNCHANGED <<pvars, cvars, p1vars, avars, bvars, rvars, tasks,
                   committed>>

\* generate_video_clip raised in job s.
SessClipRaises(s) ==
    /\ sjobs[s] = "clip"
    /\ sjobs' = [sjobs EXCEPT ![s] = "raised"]
    /\ UNCHANGED <<pvars, cvars, p1vars, avars, bvars, rvars, tasks, pending,
                   committed>>

\* The commit of job s returns: the flush writes every pending object of
\* the session.  When another job was inside the session meanwhile the
\* driver may instead raise (a session is not safe for concurrent use).
SessCommitEnds(s) ==
    /\ sjobs[s] = "commit"
    /\ \/ /\ sjobs' = [sjobs EXCEPT ![s] = "stored"]
          /\ committed' = committed \cup pending
          /\ pending' = {}
       \/ /\ InSession # {s}
          /\ sjobs' = [sjobs EXCEPT ![s] = "db_error"]
          /\ UNCHANGED <<pending, committed>>
    /\ UNCHANGED <<pvars, cvars, p1vars, avars, bvars, rvars, tasks>>

\* gather returns (every job stored) or re-raises the first exception;
\* generate_trailer ends completed or failed.
SessGatherEnds ==
    /\ tasks = <<"phase3">>
    /\ \/ /\ \A s \in DOMAIN sjobs : sjobs[s] = "stored"
          /\ status' = "completed"
          /\ progress' = 100
       \/ /\ \E s \in DOMAIN sjobs : sjobs[s] \in {"raised", "db_error"}
          /\ status' = "failed"
          /\ progress' = 0
    /\ tasks' = <<"ended">>
    /\ UNCHANGED <<errorMessage, tframe, sjobs, pending, committed>>

SessionNext ==
    \/ \E s \in DOMAIN sjobs : SessClipReturns(s)
    \/ \E s \in DOMAIN sjobs : SessClipRaises(s)
    \/ \E s \in DOMAIN sjobs : SessCommitEnds(s)
    \/ SessGatherEnds

\* =====================================================================
\* service.analyze_script run again and again on one project, its rows
\* counted
\* =====================================================================
MaxReturned == 2   \* scenes, characters, settings in one analysis
MaxAnalyses == 2   \* analyze_script runs on the project

Sizes == [n : 0..MaxReturned, c : 0..MaxReturned, s : 0..MaxReturned]
NoRows == [n |-> 0, c |-> 0, s |-> 0]

\* A store that replaces the rows of earlier runs.
ReplaceRows(count, k) == k

\* for x in analysis.<list>: db.add(...): k more rows, none removed.
AddRows(count, k) == count + k

ReanalysisIdle ==
    /\ rpc = "idle"
    /\ rOut = NoRows
    /\ rRows = NoRows
    /\ returned = <<>>
    /\ rFailures = 0

ReanalysisInit ==
    /\ ProjectAt("draft", 0)
    /\ scenes = 0
    /\ videos = <<>>
    /\ ReanalysisIdle

\* except block: failed, progress 0, message, raise.
ReFails ==
    /\ status' = "failed"
    /\ progress' = 0
    /\ errorMessage' = "llm_error"
    /\ rFailures' = rFailures + 1
    /\ rpc' = "idle"
    /\ UNCHANGED <<rOut, rRows, returned>>

\* POST /analyze: whatever the project's status, parsing / 10.
ReEnter ==
    /\ rpc = "idle"
    /\ Len(returned) + rFailures < MaxAnalyses
    /\ status' = "parsing"
    /\ progress' = 10
    /\ rpc' = "llm"
    /\ UNCHANGED <<pframe, cvars, tvars, p1vars, avars, bvars, errorMessage,
                   rOut, rRows, returned, rFailures>>

\* The analysis arrives (progress 40) or the call raises.
ReLLM ==
    /\ rpc = "llm"
    /\ \/ ReFails
       \/ /\ rOut' \in Sizes
          /\ progress' = 40
          /\ rpc' = "chars"
          /\ UNCHANGED <<status, errorMessage, rRows, returned, rFailures>>
    /\ UNCHANGED <<pframe, cvars, tvars, p1vars, avars, bvars>>

\* Store the characters and commit (progress 60), or the commit raises.
ReStoreCharacters ==
    /\ rpc = "chars"
    /\ \/ ReFails
       \/ /\ rRows' = [rRows EXCEPT !.c = AddRows(@, rOut.c)]
          /\ progress' = 60
          /\ rpc' = "settings"
          /\ UNCHANGED <<status, errorMessage, rOut, returned, rFailures>>
    /\ UNCHANGED <<pframe, cvars, tvars, p1vars, avars, bvars>>

\* Store the settings and commit (progress 80), or the commit raises.
ReStoreSettings ==
    /\ rpc = "settings"
    /\ \/ ReFails
       \/ /\ rRows' = [rRows EXCEPT !.s = AddRows(@, rOut.s)]
          /\ progress' = 80
          /\ rpc' = "scenes"
          /\ UNCHANGED <<status, errorMessage, rOut, returned, rFailures>>
    /\ UNCHANGED <<pframe, cvars, tvars, p1vars, avars, bvars>>

\* Store the scenes and commit, then parsed / 100; or the commit raises.
ReStoreScenes ==
    /\ rpc = "scenes"
    /\ \/ ReFails
       \/ /\ rRows' = [rRows EXCEPT !.n = AddRows(@, rOut.n)]
          /\ returned' = Append(returned, rOut)
          /\ status' = "parsed"
          /\ progress' = 100
          /\ errorMessage' = "none"
          /\ rpc' = "idle"
          /\ UNCHANGED <<rOut, rFailures>>
    /\ UNCHANGED <<pframe, cvars, tvars, p1vars, avars, bvars>>

ReanalysisNext ==
    \/ ReEnter
    \/ ReLLM
    \/ ReStoreCharacters
    \/ ReStoreSettings
    \/ ReStoreScenes

vars == <<pvars, cvars, xvars>>

ExtrasIdle ==
    Phase1Idle /\ AsmIdle /\ BoardIdle /\ ReanalysisIdle /\ TasksIdle

Init == PipelineInit /\ ClientIdle /\ ExtrasIdle
Next == PipelineNext
Spec == Init /\ [][Next]_vars

ClientSpecInit == PipelineInit /\ ClientInit /\ ExtrasIdle
ClientSpecNext == ClientNext
ClientSpec == ClientSpecInit /\ [][ClientSpecNext]_vars

\* The client when every request it awaits returns or raises and every
\* sleep ends: the event loop resumes the coroutine, so a step that is
\* possible is eventually taken.
ClientFairSpec ==
    ClientSpecInit /\ [][ClientSpecNext]_vars /\ WF_vars(ClientSpecNext)

Phase1SpecInit ==
    /\ PipelineIdle /\ ClientIdle /\ Phase1Init /\ AsmIdle /\ BoardIdle
    /\ ReanalysisIdle /\ TasksIdle
Phase1Spec == Phase1SpecInit /\ [][Phase1Next]_vars

AssemblySpecInit ==
    /\ AsmInit /\ ClientIdle /\ Phase1Idle /\ BoardIdle /\ ReanalysisIdle
    /\ TasksIdle
AssemblySpec == AssemblySpecInit /\ [][AssemblyNext]_vars

BoardSpecInit ==
    /\ BoardInit /\ ClientIdle /\ Phase1Idle /\ AsmIdle /\ ReanalysisIdle
    /\ TasksIdle
BoardSpec == BoardSpecInit /\ [][BoardNext]_vars

ReanalysisSpecInit ==
    /\ ReanalysisInit /\ ClientIdle /\ Phase1Idle /\ AsmIdle /\ BoardIdle
    /\ TasksIdle
ReanalysisSpec == ReanalysisSpecInit /\ [][ReanalysisNext]_vars

RunsSpecInit ==
    /\ RunsInit /\ ClientIdle /\ Phase1Idle /\ AsmIdle /\ BoardIdle
    /\ ReanalysisIdle /\ TasksIdle
RunsSpec == RunsSpecInit /\ [][RunsNext]_vars

SessionSpecInit ==
    /\ SessionInit /\ ClientIdle /\ Phase1Idle /\ AsmIdle /\ BoardIdle
    /\ ReanalysisIdle
SessionSpec == SessionSpecInit /\ [][SessionNext]_vars

\* =====================================================================
\* Properties
\* =====================================================================

\* C1: every change of Project.status moves to the next state of the phase
\* graph or to failed.  Stated for the background workflow run, and not
\* counting the restart that leaves failed.
C1_StatusFollowsPhaseGraph ==
    [][(op' = "workflow" /\ status' # status /\ status # "failed")
         => (status' = "failed" \/ <<status, status'>> \in PhaseGraph)]_vars

\* C2: a pipeline run enters Phase 1, then Phase 2, then Phase 3: each
\* phase entered after the first is the successor of the one entered before
\* it, and that one finished without an error.
C2_PhasesInOrder ==
    (op \in {"workflow", "full"}) =>
        \A k \in 2..Len(entered) :
            /\ entered[k] = entered[k - 1] + 1
            /\ outcomes[k - 1] = "ok"

\* C3: when a phase raised during a pipeline run, the run ends with the
\* project failed, the exception's message stored, and the exception
\* re-raised to the caller.
C3_FailureRecordedAndReraised ==
    (op \in {"workflow", "full"} /\ pc = "done" /\ phaseRaised # "none") =>
        /\ status = "failed"
        /\ errorMessage = phaseRaised
        /\ escaped = phaseRaised

\* Rows the current clip batch persisted for scene s.
BatchRows(s) ==
    {i \in (batchBase + 1)..Len(videos) : videos[i].sceneId = s}

BatchSettled ==
    /\ op \in {"workflow", "trailer"}
    /\ pc = "done"
    /\ DOMAIN jobs # {}
    /\ NoJobRunning

\* The row that records job s's terminal outcome.
OutcomePersisted(s) ==
    \E i \in BatchRows(s) :
        videos[i].status =
            (IF jobs[s].st = "stored" THEN "completed" ELSE "failed")

\* C4: after a clip batch in which some job failed and some job succeeded,
\* every scene has exactly one clip row of the batch, completed or failed
\* as its job ended, and a FinalMovie row was persisted.
C4_MixedBatchPersistedAndAssembled ==
    (/\ BatchSettled
     /\ \E s \in DOMAIN jobs : jobs[s].st = "raised"
     /\ \E s \in DOMAIN jobs : jobs[s].st = "stored") =>
        /\ \A s \in DOMAIN jobs :
             Cardinality(BatchRows(s)) = 1 /\ OutcomePersisted(s)
        /\ Len(movies) > movieBase

\* C5: when a job of the batch failed, every sibling that reached its own
\* terminal outcome has that outcome persisted, and no sibling is left
\* without one once the batch has settled.
C5_SiblingsRunAndPersist ==
    \A f \in DOMAIN jobs : \A s \in DOMAIN jobs \ {f} :
        (jobs[f].st = "raised" /\ jobs[s].st # "running") =>
            OutcomePersisted(s)

\* C6: the clip-generation agent reports partial when some job failed and
\* some succeeded, error when every job failed, success when none failed.
C6_BatchReport ==
    (op = "generate" /\ pc = "done" /\ scenes > 0 /\ genSkipped = 0) =>
        result = (IF genFailed = 0 THEN "success"
                  ELSE IF genCreated = 0 THEN "error" ELSE "partial")

\* C7: while every poll reports a non-terminal status the client keeps
\* polling up to its ceiling and then raises a timeout; it returns neither
\* a placeholder nor a completed clip.
C7_TimeoutAtCeiling ==
    (attempt > 0 /\ allQueued) =>
        IF cfn = "generate_video_clip"
        THEN /\ attempt <= MAX_POLL_ATTEMPTS
             /\ cOutcome = (IF attempt < MAX_POLL_ATTEMPTS THEN "none"
                            ELSE "timeout")
        ELSE /\ elapsed <= max_wait
             /\ cOutcome = (IF elapsed < max_wait THEN "none" ELSE "timeout")

C7_Witness ==
    /\ cfn = "generate_video_clip"
    /\ allQueued
    /\ attempt = MAX_POLL_ATTEMPTS
    /\ cOutcome = "timeout"

\* C8: an HTTP error status other than 429/1102 on submit or poll makes
\* generate_video_clip raise; it does not return a placeholder clip.
C8_HttpErrorSurfaces ==
    (/\ cfn = "generate_video_clip"
     /\ cpc = "done"
     /\ lastResp.kind \in {"http_error", "http_429_other"}) =>
        cOutcome \notin {"mock", "completed"}

\* C9: a poll that reports the vendor status failed ends the call with a
\* raised error carrying the vendor's message, never with a clip.
C9_VendorFailureRaises ==
    (lastResp.stage = "poll"
       /\ lastResp.kind \in {"failed_msg", "failed_nomsg"}) =>
        /\ cpc = "done"
        /\ cOutcome = "vendor_failed"
        /\ cClipDur = 0
        /\ (lastResp.kind = "failed_msg" => cErrMsg = "vendor_msg")

C9_Witness ==
    /\ cfn = "generate_video_clip"
    /\ attempt > 2
    /\ lastResp = [stage |-> "poll", kind |-> "failed_msg"]
    /\ cOutcome = "vendor_failed"

\* C10: with a vendor credential missing, generate_video_clip ends in the
\* same call with a placeholder clip: no submit, no poll, no exception.
C10_NoCredentialsPlaceholder ==
    (cfn = "generate_video_clip" /\ (~cKeys.api \/ ~cKeys.secret)
       /\ cpc # "start") =>
        /\ cpc = "done"
        /\ cOutcome = "mock"
        /\ cClipDur = (IF cDuration \in {5, 10} THEN cDuration ELSE 5)
        /\ submits = 0
        /\ attempt = 0

C10_Witness ==
    /\ cfn = "generate_video_clip"
    /\ cKeys = [api |-> TRUE, secret |-> FALSE]
    /\ cImage
    /\ cpc = "done"
    /\ cOutcome = "mock"

\* C11: after run_phase1 (script analysis, then trailer-scene selection)
\* finished without raising, the order values of the project's N scenes
\* are pairwise distinct and are exactly 1..N.
C11_OrdersContiguous ==
    (p1fn = "run_phase1" /\ p1pc = "done") =>
        /\ {sceneRows[r].order : r \in 1..Len(sceneRows)} = 1..Len(sceneRows)
        /\ \A r, q \in 1..Len(sceneRows) :
             r # q => sceneRows[r].order # sceneRows[q].order

\* C16: after service.analyze_script persisted its result, every scene's
\* setting and characters name persisted Setting / Character rows, and at
\* least one scene, character and setting exist.
C16_ReferencesResolve ==
    (p1fn = "analyze_script" /\ p1pc = "done") =>
        /\ \A r \in 1..Len(sceneRows) :
             /\ sceneRows[r].setting \in settingRows
             /\ sceneRows[r].chars \subseteq characters
        /\ Len(sceneRows) >= 1
        /\ characters # {}
        /\ settingRows # {}


\* C12: the duration of the FinalMovie an assembly persists equals the sum
\* of the persisted durations of the project's completed clips, with no
\* other adjustment, for every number of clips.
C12_DurationIsSumOfClips ==
    LET CompletedDurations ==
            SumDur([k \in 1..Len(videos) |->
                      IF videos[k].status = "completed"
                      THEN videos[k].duration ELSE 0])
    IN (apc = "done" /\ aResult = "success") =>
           movies[Len(movies)].duration = CompletedDurations


\* Assembly has returned after going through the scene loop.
AssemblyRan == afn = "execute" /\ apc = "done" /\ aSeq # <<>>

\* C13: if every completed clip fails to download, assembly ends with an
\* explicit error, persists no FinalMovie and the project is marked failed.
C13_AllDownloadsFailedMarksFailed ==
    (AssemblyRan /\ scene_clips = <<>>) =>
        /\ aResult = "error"
        /\ movies = <<>>
        /\ status = "failed"


\* C14: if at least one clip downloads, each failed download is skipped
\* after a single attempt, and the assembly (unless the concatenation tool
\* itself fails) persists a FinalMovie built from exactly the clips that
\* downloaded and marks the project completed.
C14_PartialDownloadsAssembled ==
    (AssemblyRan /\ scene_clips # <<>> /\ aResult # "raised") =>
        /\ \A s \in 1..scenes : attempts[s] <= 1
        /\ Len(movies) = 1
        /\ status = "completed"
        /\ movieClips = [k \in 1..Len(scene_clips) |-> scene_clips[k].scene]


\* C15: for any two assembled scenes a and b with a.order < b.order, a's
\* clip precedes b's in the concatenation list, whatever the order in which
\* their clips were persisted.
C15_ConcatInSceneOrder ==
    \A i, j \in 1..Len(scene_clips) :
        aOrder[scene_clips[i].scene] < aOrder[scene_clips[j].scene] => i < j

\* Two scenes assembled whose clips were persisted in the reverse of their
\* scene order.
C15_Witness ==
    /\ AssemblyRan
    /\ aResult = "success"
    /\ Len(scene_clips) = 2
    /\ aOrder[scene_clips[1].scene] < aOrder[scene_clips[2].scene]
    /\ VideoByScene(videos, scene_clips[2].scene)
         < VideoByScene(videos, scene_clips[1].scene)


\* C17: once the project's status is completed, no pipeline step changes
\* its status or progress or adds scene, clip or FinalMovie records.
C17_CompletedIsFrozen ==
    [][status = "completed" =>
         /\ status' = "completed"
         /\ progress' = progress
         /\ scenes' = scenes
         /\ videos' = videos
         /\ movies' = movies]_vars

\* C18: at any time a scene has at most one GeneratedVideo row in a
\* terminal status, also after clip generation has run more than once.
C18_OneTerminalClipPerScene ==
    LET TerminalRows(s) ==
            Cardinality({k \in 1..Len(videos) :
                           /\ videos[k].sceneId = s
                           /\ videos[k].status \in {"completed", "failed"}})
    IN \A s \in 1..scenes : TerminalRows(s) <= 1

\* C20: during a single phase run every value written to Project.progress
\* is greater than or equal to the value written before it, on the success
\* path and on the failure path alike.
C20_ProgressMonotoneInPhase ==
    [][LET InsidePhase ==
               pc \in {"an_llm", "an_chars", "an_settings", "an_scenes",
                       "tr_fetch", "tr_prompt", "tr_batch_start",
                       "tr_batch", "tr_assemble", "sb_agent"}
       IN InsidePhase => progress' >= progress]_vars


C21_ProgressInPhaseRange ==
    [][LET InPhase1 == pc \in {"an_enter", "an_llm", "an_chars",
                               "an_settings", "an_scenes"}
           InPhase2 == pc \in {"sb_enter", "sb_agent"}
           InPhase3 == pc \in {"tr_enter", "tr_fetch", "tr_prompt",
                               "tr_batch_start", "tr_batch", "tr_assemble"}
       IN progress' # progress =>
              /\ InPhase1 => progress' \in 0..33
              /\ InPhase2 => progress' \in 33..66
              /\ InPhase3 => progress' \in 66..100]_vars


\* C22: after k successful runs of analyze_script that each return n
\* scenes, c characters and s settings (and no failed run), the project has
\* k*n scenes, k*c characters and k*s settings: each run appends a full set
\* and leaves the earlier rows in place.
C22_RerunAppendsRows ==
    (rpc = "idle" /\ rFailures = 0) =>
        \A z \in Sizes :
            (\A k \in 1..Len(returned) : returned[k] = z) =>
                /\ rRows.n = Len(returned) * z.n
                /\ rRows.c = Len(returned) * z.c
                /\ rRows.s = Len(returned) * z.s

\* Two successful runs on the same project, each with rows of every kind.
C22_Witness ==
    /\ rpc = "idle"
    /\ rFailures = 0
    /\ status = "parsed"
    /\ Len(returned) = 2
    /\ returned[1] = returned[2]
    /\ returned[1].n > 0 /\ returned[1].c > 0 /\ returned[1].s > 0
    /\ rRows.n = 2 * returned[1].n


\* C23: when the workflow is started, Phase 1 runs only if the project has
\* not been parsed yet; a project whose scenes are stored skips it, also
\* when restarted after a failure in a later phase.
C23_RestartSkipsCompletedPhase1 ==
    [][(runs' = runs + 1 /\ op' = "workflow" /\ scenes > 0) =>
           pc' # "an_enter"]_vars


\* C24: an agent invoked through safe_execute never raises: an exception
\* raised by execute becomes a result with status error and the exception
\* text as message, and a dict returned by execute is passed on unchanged.
C24_SafeExecuteNeverRaises ==
    bpc = "done" =>
        /\ bEscaped = "none"
        /\ bResult.message = executed.message
        /\ bResult.status =
             IF executed.kind = "raise" THEN "error" ELSE executed.status

\* execute raised inside the scene loop and the caller got an error dict.
C24_Witness ==
    /\ bpc = "done"
    /\ executed = Raised("upload_failed")
    /\ bResult = [status |-> "error", message |-> "upload_failed"]
    /\ status = "failed"
    /\ errorMessage = "upload_failed"


\* C25: in the clip-generation batch each job's result is persisted as soon
\* as the job completes: in every state, a job that has reached its
\* terminal outcome has that outcome's row, whatever the other jobs of the
\* batch are doing.
C25_ResultPersistedOnCompletion ==
    op \in {"workflow", "trailer"} =>
        \A s \in DOMAIN jobs :
            jobs[s].st # "running" => OutcomePersisted(s)


\* C26: after trailer-scene selection, the M selected scenes that exist
\* carry the orders 1..M in the order the service returned them, the other
\* scenes carry M+1.. in scene-number order, and every selected scene is
\* ordered before every unselected one.
C26_SelectionFrontLoads ==
    (p1fn = "run_phase1" /\ p1pc \in {"ag_complete", "done"}) =>
        LET Exists(n) == \E r \in 1..Len(sceneRows) : sceneRows[r].num = n
            chosen == SelectSeq(selected, Exists)
            M == Len(chosen)
            nums == {selected[i] : i \in 1..Len(selected)}
            rest == {r \in 1..Len(sceneRows) : sceneRows[r].num \notin nums}
        IN /\ \A r \in 1..Len(sceneRows) \ rest :
                /\ sceneRows[r].order \in 1..M
                /\ chosen[sceneRows[r].order] = sceneRows[r].num
           /\ {sceneRows[r].order : r \in rest} =
                  (M + 1)..(M + Cardinality(rest))
           /\ \A r, q \in rest :
                  sceneRows[r].num < sceneRows[q].num =>
                      sceneRows[r].order < sceneRows[q].order
           /\ \A r \in 1..Len(sceneRows) \ rest : \A q \in rest :
                  sceneRows[r].order < sceneRows[q].order


\* C27: in the assembly loop every scene whose clip downloaded has exactly
\* one entry in the concat list: the merged clip when the scene has
\* non-empty dialogue and synthesis and merge both succeeded, the
\* video-only clip otherwise; a failed narration never ends the assembly
\* with an error.
C27_OneOutputPerDownloadedScene ==
    afn = "execute" =>
        /\ \A s \in DOMAIN narration :
             LET at == {k \in 1..Len(scene_clips) : scene_clips[k].scene = s}
             IN narration[s] # "pending" =>
                  /\ Cardinality(at) = 1
                  /\ \A k \in at :
                       scene_clips[k].path =
                           IF dialogue[s] = "text" /\ narration[s] = "merged"
                           THEN CombinedPath(aOrder, s)
                           ELSE RawPath(aOrder, s)
        /\ aResult = "error" =>
             \A s \in DOMAIN narration : narration[s] = "pending"

\* An assembly that finished after one scene's narration was merged and
\* another's failed.
C27_Witness ==
    /\ afn = "execute"
    /\ apc = "done"
    /\ aResult = "success"
    /\ \E s, q \in DOMAIN narration :
         /\ narration[s] = "merged"
         /\ narration[q] \in {"tts_failed", "merge_failed"}
         /\ \E k \in 1..Len(scene_clips) :
              scene_clips[k] = [scene |-> q, path |-> RawPath(aOrder, q)]


\* C28: an image submitted for image-conditioned generation has one of the
\* supported formats by its magic bytes (JPEG, PNG, WebP) and is labelled
\* with that format; an image of any other format is not submitted.
C28_OnlySupportedImagesSubmitted ==
    LET Format(img) ==
            IF img.b0 = "jpeg" THEN "image/jpeg"
            ELSE IF img.b0 = "png" /\ img.b4 = "pngtail" THEN "image/png"
            ELSE IF img.b0 = "riff" /\ img.b8 = "WEBP" THEN "image/webp"
            ELSE "unsupported"
    IN (cVariant = "i2v" /\ submits > 0) =>
           /\ Format(cBytes) # "unsupported"
           /\ cRequest.mime = Format(cBytes)

\* C29: when an image URL was passed and the fetch failed, the call goes on
\* to submit the text-only variant, polled at the text-only endpoint, with
\* the duration of the request; the image variant is only ever chosen after
\* a successful fetch.
C29_FetchFailureFallsBackToText ==
    cfn = "generate_video_clip" =>
        /\ (cImage /\ cFetch = "failed") =>
             /\ cVariant = "t2v"
             /\ cRequest = [poll |-> "t2v", mime |-> "none",
                            duration |-> KlingDuration(cDuration)]
             /\ cpc = "done" => submits = 1
        /\ cVariant = "i2v" => (cImage /\ cFetch = "ok")

\* A clip completed through the text-only variant after the image fetch
\* failed.
C29_Witness ==
    /\ cfn = "generate_video_clip"
    /\ cImage
    /\ cFetch = "failed"
    /\ cOutcome = "completed"
    /\ lastResp.stage = "poll"

\* C30: counting the poll sleeps, the token a poll request carries is never
\* older than 100 poll intervals, which is less than its validity, up to
\* the poll ceiling.
C30_TokenFreshAtEveryPoll ==
    cfn = "generate_video_clip" =>
        /\ elapsed - cTokenAt <= 100 * POLL_INTERVAL_SECONDS
        /\ elapsed - cTokenAt < TokenLifetime

\* The last poll of the ceiling, sent with the token of the third refresh.
C30_Witness ==
    /\ cfn = "generate_video_clip"
    /\ attempt = MAX_POLL_ATTEMPTS
    /\ elapsed = MAX_POLL_ATTEMPTS * POLL_INTERVAL_SECONDS
    /\ cTokenAt = 301 * POLL_INTERVAL_SECONDS


\* C31: once generate_trailer has marked the project failed and raised
\* because a job of its batch failed, no job of that batch changes the
\* persisted records of the project.
C31_NoWriteAfterBatchAbandoned ==
    [][(/\ op \in {"workflow", "trailer"}
        /\ pc = "done"
        /\ status = "failed"
        /\ jobs' # jobs) =>
           UNCHANGED <<status, progress, errorMessage, scenes, prompts,
                       videos, movies>>]_vars


\* C32: within the gathered clip batch at most one job at a time is inside
\* an operation on the shared database session.
C32_SessionUsedByOneJob == Cardinality(InSession) <= 1

\* C33: at most one background pipeline task of the project is executing a
\* phase at any time.
C33_OneRunInProgress ==
    Cardinality({r \in DOMAIN tasks : tasks[r] \in {"phase1", "phase3"}}) <= 1


\* C34: when a pipeline run (run_full_pipeline or the background
\* _run_pipeline) has ended, normally or because a phase raised, the
\* persisted status is completed or failed.
C34_RunEndsCompletedOrFailed ==
    (op \in {"workflow", "full"} /\ pc = "done") =>
        status \in {"completed", "failed"}


\* C35: after run_phase1 or analyze_script finished successfully the
\* project has a status that the entry check of generate_trailer accepts.
C35_SuccessLeavesAcceptedStatus ==
    p1pc = "done" => status \in {"parsed", "completed", "failed"}


\* C36: the first workflow run on a draft project is never marked failed
\* unless an external call failed or Phase 1 returned no scene.
C36_WorkflowNeverFailsWithoutCause ==
    (op = "workflow" /\ runs = 1 /\ status = "failed") =>
        errorMessage \in {"llm_error", "job_failed", "no_scenes"}


\* C37: every value assigned to Project.status is one of the values declared
\* for the status column.
C37_StatusIsDeclaredValue == status \in ProjectStatuses


\* C38: within one assembly run two different scenes never share a
\* temporary path, and every entry of the concatenation list holds the
\* media of its own scene, for every assignment of Scene.order Phase 1 can
\* produce.
C38_ScenesKeepTheirOwnFiles ==
    afn = "execute" =>
        /\ \A i, j \in 1..Len(scene_clips) :
               i # j => scene_clips[i].path # scene_clips[j].path
        /\ \A k \in 1..Len(scene_clips) :
               files[scene_clips[k].path] = scene_clips[k].scene


C40_SceneFailureStaysLocal ==
    [][(bpc = "loop" /\ Cardinality(Existing(boards, bidx)) <= 1) =>
           /\ bpc' \in {"loop", "finish"}
           /\ Cardinality(Existing(boards', bidx)) = 1]_vars
====
